---- MODULE Spec2Model ----
(***************************************************************************)
(* A model of the session manager of OpenRV                                *)
(* (src/plugins/rv-packages/session_manager/session_manager.py): the       *)
(* sort/expand state store, the sub-component identity resolver, the tree  *)
(* model synchronizer with its drag/drop reconciliation and the inputs     *)
(* list reconciler.                                                        *)
(*                                                                         *)
(* The program is single threaded: every handler runs to completion on the *)
(* UI thread, and the Graph Facade (rv.commands) delivers the events a     *)
(* call causes (graph-node-inputs-changed, graph-state-change, new-node,   *)
(* after-graph-view-change) synchronously, inside that call.  A handler is *)
(* therefore one action; the handlers it triggers through the Facade are   *)
(* part of it.  The code of a handler is a sequence of assignments, so     *)
(* each function of the source is an operator from a state record (one     *)
(* field per variable) to a state record, and an action applies one.       *)
(*                                                                         *)
(* Node names are numbers (1..MaxNodes, in creation order, which is the    *)
(* order of commands.nodes()); 0 is the empty node name "".                *)
(***************************************************************************)
EXTENDS Integers, Sequences, FiniteSets, TLC

\* ------------------------------------------------------------------ bounds
\* Node names the session can hold: the initial graph and what is created.
MaxNodes == 7
\* Rows of one tree selection or drag, and rows of the inputs list.
MaxSel == 1
MaxRows == 3
\* Nodes whose sort keys the sort-key specification writes (1..MaxSortNodes),
\* and the parents it writes them under (0..MaxSortNodes).
MaxSortNodes == 2
\* Calls of setSortKeyInParent in one behaviour of the sort-key specification.
MaxSortCalls == 3
\* User gestures and outside events in one behaviour (timeouts are not counted).
MaxOps == 2
\* Transform nodes of the view, and pointer events and outside events in one
\* behaviour of the transform manipulator.
MaxManipNodes == 2
MaxManipEvents == 4

\* --------------------------------------------------------- program constants
\* sortKeyInParent: undefinedKey = 2147483547 (int.max - 100)
undefinedKey == 2147483547
INT_MAX == 2147483647
INT_MIN == -2147483647 - 1

NotASubComponent == 0
MediaSubComponent == 1
ViewSubComponent == 2
LayerSubComponent == 3
ChannelSubComponent == 4

\* transform_manip.py, control types
NoControl == 0
FreeTranslation == 1
TopLeftCorner == 2
TopRightCorner == 3
BotLeftCorner == 4
BotRightCorner == 5

Nodes == 1..MaxNodes
NoNode == 0

VARIABLES
    \* Graph Facade (rv.commands): the live graph
    nodeType,              \* node -> type name, "" for a name no node has
    inputs,                \* node -> its input list (nodeConnections(n)[0])
    uiName,                \* node -> its ui.name property
    viewNode,              \* commands.viewNode()
    \* persisted sm_state properties, each [ex |-> exists, v |-> array]
    sortKeyParent, sortKey, expandState, expandedSubState,
    componentHash, componentOfNode, componentFolderOfNode, imageComponent,
    \* SessionManagerMode
    disableUpdates, inputOrderLock, lazySetInputsTimer, lazyUpdateTimer,
    viewModel, inputsModel,
    uiCreated,             \* _uiCreated: _setupUI loaded session_manager.ui
    progressiveLoadingInProgress,
    treeSelection,         \* the selected items of the tree view
    editors,               \* _editors: the panels, each [label, hidden]
    \* NodeTreeView
    sortTimer, sortFolders, dropAction, draggedNodePaths,
    \* what the last handler did: its name, its Facade calls, and its name with
    \* its arguments
    lastHandler, calls, viewCalls, lastOp,
    raised,                \* the exception the last handler let escape, or ""
    \* user gestures and outside events so far
    nOps,
    \* what the last calls of a function under test returned, newest last
    returned

VARIABLES
    \* TransformManip
    editNodes,             \* _editNodes: the EditNodePair list
    currentEditNode,       \* _currentEditNode: the hovered pair, or none
    control, gc, corner, downPoint, editing, didDrag,
    \* Graph Facade: node.tag.tmanip_state, node.transform.translate and
    \* node.transform.scale of the transform nodes, and the rendered images
    tmanipState, translate, scale, renderedImages,
    \* Graph Facade: the transform nodes that exist (commands.nodeExists) and
    \* the ones that carry the node.tag.tmanip property
    tformExists, tmanip,
    \* what the last handler of the manipulator did: its name and pointer, the
    \* float properties it wrote, and the run of free-translation drag steps
    \* it ends
    manipOp, propWrites, dragRun,
    \* pointer events and outside events so far
    nManip

smVars == <<nodeType, inputs, uiName, viewNode, sortKeyParent, sortKey,
          expandState, expandedSubState, componentHash, componentOfNode,
          componentFolderOfNode,
          imageComponent, disableUpdates, inputOrderLock, lazySetInputsTimer,
          lazyUpdateTimer, viewModel, inputsModel, uiCreated,
          progressiveLoadingInProgress, treeSelection, editors,
          sortTimer, sortFolders, dropAction, draggedNodePaths, lastHandler, calls, viewCalls, lastOp,
          raised, nOps,
          returned>>

manipVars == <<editNodes, currentEditNode, control, gc, corner, downPoint,
               editing, didDrag, tmanipState, translate, scale, renderedImages,
               tformExists, tmanip, manipOp, propWrites, dragRun, nManip>>

vars == <<smVars, manipVars>>

\* The state as one record, and the action that makes a record the next state.
Cur ==
    [nodeType |-> nodeType, inputs |-> inputs, uiName |-> uiName,
     viewNode |-> viewNode, sortKeyParent |-> sortKeyParent,
     sortKey |-> sortKey, expandState |-> expandState,
     expandedSubState |-> expandedSubState,
     componentHash |-> componentHash, componentOfNode |-> componentOfNode,
     componentFolderOfNode |-> componentFolderOfNode,
     imageComponent |-> imageComponent,
     disableUpdates |-> disableUpdates, inputOrderLock |-> inputOrderLock,
     lazySetInputsTimer |-> lazySetInputsTimer,
     lazyUpdateTimer |-> lazyUpdateTimer, viewModel |-> viewModel,
     inputsModel |-> inputsModel, uiCreated |-> uiCreated,
     progressiveLoadingInProgress |-> progressiveLoadingInProgress,
     treeSelection |-> treeSelection,
     editors |-> editors, sortTimer |-> sortTimer,
     sortFolders |-> sortFolders, dropAction |-> dropAction,
     draggedNodePaths |-> draggedNodePaths, lastHandler |-> lastHandler,
     calls |-> calls,
     viewCalls |-> viewCalls,
     lastOp |-> lastOp, raised |-> raised, nOps |-> nOps,
     returned |-> returned]

Apply(s) ==
    \E t \in {s} :
       /\ nOps' = t.nOps
       /\ nodeType' = t.nodeType
       /\ inputs' = t.inputs
       /\ uiName' = t.uiName
       /\ viewNode' = t.viewNode
       /\ sortKeyParent' = t.sortKeyParent
       /\ sortKey' = t.sortKey
       /\ expandState' = t.expandState
       /\ expandedSubState' = t.expandedSubState
       /\ componentHash' = t.componentHash
       /\ componentOfNode' = t.componentOfNode
       /\ componentFolderOfNode' = t.componentFolderOfNode
       /\ imageComponent' = t.imageComponent
       /\ disableUpdates' = t.disableUpdates
       /\ inputOrderLock' = t.inputOrderLock
       /\ lazySetInputsTimer' = t.lazySetInputsTimer
       /\ lazyUpdateTimer' = t.lazyUpdateTimer
       /\ viewModel' = t.viewModel
       /\ inputsModel' = t.inputsModel
       /\ uiCreated' = t.uiCreated
       /\ progressiveLoadingInProgress' = t.progressiveLoadingInProgress
       /\ treeSelection' = t.treeSelection
       /\ editors' = t.editors
       /\ sortTimer' = t.sortTimer
       /\ sortFolders' = t.sortFolders
       /\ dropAction' = t.dropAction
       /\ draggedNodePaths' = t.draggedNodePaths
       /\ lastHandler' = t.lastHandler
       /\ calls' = t.calls
       /\ viewCalls' = t.viewCalls
       /\ lastOp' = t.lastOp
       /\ raised' = t.raised
       /\ returned' = t.returned
       /\ UNCHANGED manipVars

\* A handler starts: its name and arguments, and an empty call log.
Op(name, a, b, c) == [op |-> name, a |-> a, b |-> b, c |-> c]
Begin(s, name, a, b, c) ==
    [s EXCEPT !.lastHandler = name, !.calls = <<>>, !.viewCalls = <<>>,
              !.lastOp = Op(name, a, b, c), !.raised = ""]
\* The same for a user gesture or an outside event, which is counted.
BeginUser(s, name, a, b, c) ==
    [s EXCEPT !.lastHandler = name, !.calls = <<>>, !.viewCalls = <<>>,
              !.lastOp = Op(name, a, b, c), !.raised = "", !.nOps = @ + 1]

\* ------------------------------------------------------- module-level helpers
\* A property that does not exist, and one that holds the array v.
NoProp == [ex |-> FALSE, v |-> <<>>]
Prop(v) == [ex |-> TRUE, v |-> v]

\* contains(array, value)
contains(array, value) == \E i \in 1..Len(array) : array[i] = value

\* indexOf(array, value): the first index (from 0) of value, -1 if not found
indexOf(array, value) ==
    IF contains(array, value)
    THEN (CHOOSE i \in 1..Len(array) :
              /\ array[i] = value
              /\ \A j \in 1..(i - 1) : array[j] # value) - 1
    ELSE -1

\* remove(array, value): array without every occurrence of value
RECURSIVE remove(_, _)
remove(array, value) ==
    IF array = <<>> THEN <<>>
    ELSE IF Head(array) = value THEN remove(Tail(array), value)
    ELSE <<Head(array)>> \o remove(Tail(array), value)

\* An exception leaves the handler: what the handler did before it stays.
Raise(s, what) == [s EXCEPT !.raised = what]

\* self._lazyUpdateTimer.start(0): the timers are made by _setupUI, and
\* without them the attribute is None.
startLazyUpdateTimer(s) ==
    IF s.uiCreated THEN [s EXCEPT !.lazyUpdateTimer = TRUE]
    ELSE Raise(s, "AttributeError")

\* ------------------------------------------------ Graph Facade event handlers
\* propertyChanged: the graph-state-change event for property node.comp.name.
\* A ui.name or a sort-key property starts the tree timer; the request
\* property only repaints the selection dots.  The handler does not read
\* disableUpdates.
propertyChanged(s, comp, name) ==
    IF comp = "ui" /\ name = "name"
    THEN startLazyUpdateTimer(s)
    ELSE IF comp = "sm_state" /\ name \in {"sortKey", "sortKeyParent"}
    THEN startLazyUpdateTimer(s)
    ELSE s

\* commands.setStringProperty / setIntProperty(node.sm_state.name, v, True):
\* the write (the property is created when missing) and the event it sends.
setProperty(s, name, node, v) ==
    propertyChanged([s EXCEPT ![name][node] = Prop(v)], "sm_state", name)

\* ------------------------------------------------------ sort/expand state store
\* sortKeyInParent(node, parent)
sortKeyInParent(s, node, parent) ==
    LET p == s.sortKeyParent[node]
        keys == s.sortKey[node]
        i == indexOf(p.v, parent)
    IN  IF p.ex /\ keys.ex
        THEN IF i = -1 \/ Len(keys.v) # Len(p.v)
             THEN undefinedKey
             ELSE keys.v[i + 1]
        ELSE undefinedKey

\* setSortKeyInParent with the synchronized branch dropped: both arrays are
\* always reset to the one entry written.
setSortKeyInParentReset(s, node, parent, value) ==
    setProperty(setProperty(s, "sortKeyParent", node, <<parent>>),
                "sortKey", node, <<value>>)

\* setSortKeyInParent that appends without looking for the parent's entry.
setSortKeyInParentAppend(s, node, parent, value) ==
    LET p == s.sortKeyParent[node]
        keys == s.sortKey[node]
    IN  setProperty(setProperty(s, "sortKeyParent", node, Append(p.v, parent)),
                    "sortKey", node, Append(keys.v, value))

\* setSortKeyInParent(node, parent, value)
setSortKeyInParent(s, node, parent, value) ==
    LET p == s.sortKeyParent[node]
        keys == s.sortKey[node]
        i == indexOf(p.v, parent)
    IN  IF p.ex /\ keys.ex /\ Len(p.v) = Len(keys.v)
        THEN IF i = -1
             THEN setProperty(
                      setProperty(s, "sortKeyParent", node, Append(p.v, parent)),
                      "sortKey", node, Append(keys.v, value))
             ELSE setProperty(s, "sortKey", node,
                              [keys.v EXCEPT ![i + 1] = value])
        ELSE setProperty(setProperty(s, "sortKeyParent", node, <<parent>>),
                         "sortKey", node, <<value>>)

\* ------------------------------------------------------------ the live graph
Folder == "RVFolderGroup"
Source == "RVSourceGroup"
Stack == "RVStackGroup"

\* commands.nodeExists(node)
nodeExists(s, node) == node \in Nodes /\ s.nodeType[node] # ""

\* nodeInputs(node): commands.nodeConnections(node)[0], [] when the call fails
nodeInputs(s, node) == IF nodeExists(s, node) THEN s.inputs[node] ELSE <<>>

\* commands.nodeConnections(node)[1]: the nodes that have node as an input
nodeOutputs(s, node) == {o \in Nodes : nodeExists(s, o) /\ contains(s.inputs[o], node)}

\* The nodes reachable from node through input lists, in at most k steps.
RECURSIVE Upstream(_, _, _)
Upstream(s, from, k) ==
    IF k = 0 THEN from
    ELSE Upstream(s, from \cup {i \in Nodes : \E n \in from : contains(nodeInputs(s, n), i)},
                  k - 1)

\* commands.testNodeInputs(node, ins): the Facade's pre-check.  It refuses a
\* cycle and inputs to a source; beyond that the Facade is an external
\* collaborator, and rej is the set of nodes whose proposed input set it
\* refuses during the running handler.
testNodeInputs(s, node, ins, rej) ==
    /\ node \notin rej
    /\ ~(s.nodeType[node] = Source /\ ins # <<>>)
    /\ node \notin Upstream(s, {ins[i] : i \in 1..Len(ins)}, MaxNodes)

\* The rows of the inputs list and the sub-component rows of the tree: the
\* item's data roles, and chain, the (type, value) of the items above it in
\* its model (item.parent(), item.parent().parent(), ...).
Row(node) ==
    [node |-> node, subType |-> NotASubComponent, value |-> "", media |-> "",
     hash |-> "", chain |-> <<>>]

\* ------------------------------------------------------------ the tree model
\* Stable insertion of x into the sorted list by key (QStandardItemModel.sort
\* is a stable sort on the sort-key role).
RECURSIVE InsertByKey(_, _, _, _, _)
InsertByKey(s, sorted, x, parent, i) ==
    IF i > Len(sorted) THEN Append(sorted, x)
    ELSE IF sortKeyInParent(s, x, parent) < sortKeyInParent(s, sorted[i], parent)
    THEN SubSeq(sorted, 1, i - 1) \o <<x>> \o SubSeq(sorted, i, Len(sorted))
    ELSE InsertByKey(s, sorted, x, parent, i + 1)

RECURSIVE SortByKey(_, _, _)
SortByKey(s, list, parent) ==
    IF list = <<>> THEN <<>>
    ELSE InsertByKey(s, SortByKey(s, SubSeq(list, 1, Len(list) - 1), parent),
                     list[Len(list)], parent, 1)

\* The nodes of a set in name (creation) order, as commands.viewNodes() and
\* commands.nodes() list them.
RECURSIVE InOrder(_, _)
InOrder(set, n) ==
    IF n > MaxNodes THEN <<>>
    ELSE (IF n \in set THEN <<n>> ELSE <<>>) \o InOrder(set, n + 1)

\* The category table with the file sources left out of its first test.
categoryOfNoFileSource(ntype) ==
    IF ntype \in {"RVImageSource", "RVSourceGroup"} THEN "SOURCES"
    ELSE IF ntype = "RVSequenceGroup" THEN "SEQUENCES"
    ELSE IF ntype = "RVStackGroup" THEN "STACKS"
    ELSE IF ntype = "RVLayoutGroup" THEN "LAYOUTS"
    ELSE IF ntype = "RVFolderGroup" THEN "FOLDERS"
    ELSE "OTHER"

\* updateTree's category table, in the order the category rows are appended.
Categories == <<"FOLDERS", "SOURCES", "SEQUENCES", "STACKS", "LAYOUTS", "OTHER">>
categoryOf(ntype) ==
    IF ntype \in {"RVFileSource", "RVImageSource", "RVSourceGroup"} THEN "SOURCES"
    ELSE IF ntype = "RVSequenceGroup" THEN "SEQUENCES"
    ELSE IF ntype = "RVStackGroup" THEN "STACKS"
    ELSE IF ntype = "RVLayoutGroup" THEN "LAYOUTS"
    ELSE IF ntype = "RVFolderGroup" THEN "FOLDERS"
    ELSE "OTHER"

\* The top-level rows: every node none of whose outputs is a folder, under its
\* category, each category sorted by the sort key under parent "".
RECURSIVE TopRows(_, _)
TopRows(s, c) ==
    IF c > Len(Categories) THEN <<>>
    ELSE SortByKey(s,
             InOrder({n \in Nodes :
                          /\ nodeExists(s, n)
                          /\ \A o \in nodeOutputs(s, n) : s.nodeType[o] # Folder
                          /\ categoryOf(s.nodeType[n]) = Categories[c]}, 1),
             NoNode)
         \o TopRows(s, c + 1)

\* The view model: the rows under the categories (index 0) and the child rows
\* of each folder (newNodeRow's recursion into a folder's inputs), sorted.
\* Each item of a folder shows the same children, so they are kept per folder.
BuildTree(s) ==
    [p \in 0..MaxNodes |->
        IF p = NoNode THEN TopRows(s, 1)
        ELSE IF nodeExists(s, p) /\ s.nodeType[p] = Folder
        THEN SortByKey(s, nodeInputs(s, p), p)
        ELSE <<>>]

\* Whether the tree holds an item of the node.
InTree(s, node) == \E p \in 0..MaxNodes : contains(s.viewModel[p], node)

RECURSIVE Rows(_)
Rows(list) == IF list = <<>> THEN <<>> ELSE <<Row(Head(list))>> \o Rows(Tail(list))

\* inputRowsRemovedSlot, inputRowsInsertedSlot: the rowsRemoved and rowsInserted
\* signals of the inputs list model start the inputs timer.
inputRowsRemovedSlot(s) ==
    IF s.inputOrderLock \/ s.viewNode = NoNode THEN s
    ELSE [s EXCEPT !.lazySetInputsTimer = TRUE]

\* The rowsInserted slot without its test of the inputs-order lock.
inputRowsInsertedSlotNoLock(s) ==
    IF s.viewNode = NoNode THEN s
    ELSE [s EXCEPT !.lazySetInputsTimer = TRUE]

inputRowsInsertedSlot(s) ==
    IF s.inputOrderLock \/ s.viewNode = NoNode THEN s
    ELSE [s EXCEPT !.lazySetInputsTimer = TRUE]

\* updateInputs(node), its two halves: inputsModel.clear() (rowsRemoved) and
\* the appendRow of every input of the node (rowsInserted).
clearInputsModel(s) ==
    IF s.inputsModel # <<>>
    THEN inputRowsRemovedSlot([s EXCEPT !.inputsModel = <<>>])
    ELSE s

fillInputsModel(s, node) ==
    IF nodeInputs(s, node) # <<>>
    THEN inputRowsInsertedSlot([s EXCEPT !.inputsModel = Rows(nodeInputs(s, node))])
    ELSE s

\* updateInputs with no inputs-order lock: the slots see the rows change.
updateInputsNoLock(s, node) ==
    IF s.disableUpdates \/ s.progressiveLoadingInProgress \/ ~s.uiCreated
    THEN s
    ELSE fillInputsModel(clearInputsModel(s), node)

\* updateInputs(node): the inputs list rebuilt from the graph, under the
\* inputs-order lock (the rowsRemoved / rowsInserted slots see the lock and
\* return).
updateInputs(s, node) ==
    IF s.disableUpdates \/ s.progressiveLoadingInProgress THEN s
    ELSE IF ~s.uiCreated THEN [s EXCEPT !.inputOrderLock = FALSE]
    ELSE [fillInputsModel(clearInputsModel([s EXCEPT !.inputOrderLock = TRUE]),
                          node)
             EXCEPT !.inputOrderLock = FALSE]

\* ----------------------------------------------- sub-component identity resolver
\* An optional string: None is <<>>, the string x is <<x>>.
None == <<>>
Some(x) == <<x>>

\* hashedSubComponent that formats the empty string as it is.
hashedSubComponentPlain(media, view, layer) ==
    IF view = None /\ layer = None THEN media \o "!~!~"
    ELSE IF view = None THEN media \o "!~" \o layer[1] \o "!~"
    ELSE IF layer = None THEN media \o "!~!~" \o view[1]
    ELSE media \o "!~" \o layer[1] \o "!~" \o view[1]

\* hashedSubComponent(media, view=None, layer=None)
hashedSubComponent(media, view, layer) ==
    LET v == IF view # None /\ view = Some("") THEN Some("@.") ELSE view
        l == IF layer # None /\ layer = Some("") THEN Some("@.") ELSE layer
    IN  IF v = None /\ l = None THEN media \o "!~!~"
        ELSE IF v = None THEN media \o "!~" \o l[1] \o "!~"
        ELSE IF l = None THEN media \o "!~!~" \o v[1]
        ELSE media \o "!~" \o l[1] \o "!~" \o v[1]

\* hashedSubComponentFromItem(item)
hashedSubComponentFromItem(item) ==
    LET hasParent == Len(item.chain) >= 1
        hasGrand == Len(item.chain) >= 2
        pvalue == IF hasParent THEN item.chain[1].v ELSE ""
        psubType == IF hasParent THEN item.chain[1].t ELSE NotASubComponent
    IN  IF item.subType = MediaSubComponent
        THEN hashedSubComponent(item.value, None, None)
        ELSE IF item.subType = LayerSubComponent
        THEN IF psubType = ViewSubComponent
             THEN hashedSubComponent(IF hasGrand THEN item.chain[2].v ELSE "",
                                     Some(pvalue), Some(item.value))
             ELSE hashedSubComponent(pvalue, None, Some(item.value))
        ELSE IF item.subType = ViewSubComponent
        THEN hashedSubComponent(pvalue, Some(item.value), None)
        ELSE ""

\* subComponentPropValue(item)
RECURSIVE subComponentPropValue(_)
subComponentPropValue(item) ==
    LET hasParent == Len(item.chain) >= 1
        parent == [subType |-> item.chain[1].t, value |-> item.chain[1].v,
                   chain |-> Tail(item.chain)]
    IN  IF item.subType = ViewSubComponent THEN <<"view", item.value>>
        ELSE IF item.subType = LayerSubComponent
        THEN <<"layer",
               IF hasParent /\ item.chain[1].t = ViewSubComponent
               THEN item.chain[1].v ELSE "",
               item.value>>
        ELSE IF item.subType = ChannelSubComponent
        THEN LET pvalue == IF hasParent THEN subComponentPropValue(parent) ELSE <<>>
             IN  IF Len(pvalue) = 0 THEN <<"channel", "", "", item.value>>
                 ELSE IF Len(pvalue) = 2 THEN <<"channel", pvalue[2], "", item.value>>
                 ELSE IF Len(pvalue) = 3
                 THEN <<"channel", pvalue[2], pvalue[3], item.value>>
                 ELSE <<>>
        ELSE <<>>

\* The media every source of the model holds (commands.sourceMediaInfoList):
\* one file with one unnamed view, one layer "L" and its channels "R" and "G".
MediaFile == "a.exr"

\* newNodeSubComponent: a sub-component item of the node's row, with its hash.
SubItem(node, subType, value, chain) ==
    LET item == [node |-> node, subType |-> subType, value |-> value,
                 media |-> MediaFile, hash |-> "", chain |-> chain]
    IN  [item EXCEPT !.hash = hashedSubComponentFromItem(item)]

\* _addSourceSubComponents: the sub-component items under the row of a source.
\* A source that is itself a materialized sub-component shows a placeholder
\* only.  The single unnamed view collapses into the media item.
RowChain == <<[t |-> NotASubComponent, v |-> ""]>>
MediaChain == <<[t |-> MediaSubComponent, v |-> MediaFile]>> \o RowChain
LayerChain == <<[t |-> LayerSubComponent, v |-> "L"]>> \o MediaChain
addSourceSubComponents(s, node) ==
    IF s.componentHash[node].ex THEN {}
    ELSE {SubItem(node, MediaSubComponent, MediaFile, RowChain),
          SubItem(node, LayerSubComponent, "L", MediaChain),
          SubItem(node, ChannelSubComponent, "R", LayerChain),
          SubItem(node, ChannelSubComponent, "G", LayerChain)}

\* ------------------------------------------------- the selection of the tree
\* mapModel over the sub-component items of a source row: the children of an
\* item come before the item, so the channels before their layer and the
\* layer before the media (the items have no sort key, and the sort of the
\* model leaves them in the order they were added).
mapSubComponents(s, node) ==
    IF addSourceSubComponents(s, node) = {} THEN <<>>
    ELSE <<SubItem(node, ChannelSubComponent, "R", LayerChain),
           SubItem(node, ChannelSubComponent, "G", LayerChain),
           SubItem(node, LayerSubComponent, "L", MediaChain),
           SubItem(node, MediaSubComponent, MediaFile, RowChain)>>

\* mapModel(model, lambda i: itemNode(i) == node), as far as the loop of
\* selectViewableNode reads it: the first item of the result.  mapOverItem
\* appends the items under a row before the row's own item, so the first item
\* of a node is the first sub-component item of its first row when the row
\* has sub-component items, and the row's own item when it has none.
mapModel(s, node) ==
    IF ~InTree(s, node) THEN <<>>
    ELSE IF s.nodeType[node] = Source /\ mapSubComponents(s, node) # <<>>
    THEN <<Head(mapSubComponents(s, node))>>
    ELSE <<Row(node)>>

\* selectViewableNode: clears the selection, selects the first item mapModel
\* finds for the view node and refreshes the inputs list.
selectViewableNode(s) ==
    IF s.viewNode = NoNode THEN s
    ELSE IF ~s.uiCreated THEN Raise(s, "AttributeError")
    ELSE IF mapModel(s, s.viewNode) # <<>>
    THEN updateInputs([s EXCEPT !.treeSelection = mapModel(s, s.viewNode)],
                      s.viewNode)
    ELSE [s EXCEPT !.treeSelection = <<>>]

\* updateTree without viewModel.clear(): the rows are appended to the old ones.
updateTreeNoClear(s) ==
    IF ~s.uiCreated \/ s.disableUpdates THEN s
    ELSE selectViewableNode(
             [s EXCEPT !.viewModel = [p \in 0..MaxNodes |-> @[p] \o BuildTree(s)[p]],
                       !.treeSelection = <<>>])

\* updateTree
updateTree(s) ==
    IF ~s.uiCreated \/ s.disableUpdates THEN s
    ELSE selectViewableNode([s EXCEPT !.viewModel = BuildTree(s),
                                      !.treeSelection = <<>>])

\* nodeInputsChanged: the graph-node-inputs-changed event for node.
nodeInputsChanged(s, node) ==
    IF s.viewNode = NoNode THEN s
    ELSE [(IF node = s.viewNode THEN updateInputs(s, node) ELSE s)
             EXCEPT !.lazyUpdateTimer =
                        IF /\ s.nodeType[node] = Folder /\ s.uiCreated
                           /\ s.dropAction = "IgnoreAction"
                        THEN TRUE ELSE @]

\* setNodeStatus(node, status): mapModel walks the tree model; the status
\* column itself is not part of the state.
setNodeStatus(s) == IF s.uiCreated THEN s ELSE Raise(s, "AttributeError")

\* afterGraphViewChange
afterGraphViewChange(s) ==
    IF s.viewNode = NoNode THEN s
    ELSE IF selectViewableNode(s).raised # "" THEN selectViewableNode(s)
    ELSE setNodeStatus(selectViewableNode(s))

\* beforeGraphViewChange: every panel is hidden, then the status of the view
\* node is cleared.
beforeGraphViewChange(s) ==
    setNodeStatus([s EXCEPT !.editors = [i \in DOMAIN @ |-> [@[i] EXCEPT !.hidden = TRUE]]])

\* commands.setNodeInputs(node, ins): the write and the event it sends.
setNodeInputs(s, node, ins) ==
    nodeInputsChanged(
        [s EXCEPT !.inputs[node] = ins,
                  !.calls = Append(@, [fn |-> "setNodeInputs", node |-> node,
                                       ins |-> ins])],
        node)

\* setInputs(node, inputs): returns the state and whether the set was accepted.
setInputs(s, node, ins, rej) ==
    LET s1 == [s EXCEPT !.calls = Append(@, [fn |-> "testNodeInputs",
                                            node |-> node, ins |-> ins])]
    IN  IF testNodeInputs(s, node, ins, rej)
        THEN [s |-> setNodeInputs(s1, node, ins), ok |-> TRUE]
        ELSE [s |-> s1, ok |-> FALSE]

\* removeInput(node, inputNode)
removeInput(s, node, inputNode, rej) ==
    IF node # NoNode /\ nodeExists(s, node)
    THEN setInputs(s, node, remove(nodeInputs(s, node), inputNode), rej)
    ELSE [s |-> s, ok |-> TRUE]

\* hasInput(node, inputNode)
hasInput(s, node, inputNode) ==
    IF node = NoNode THEN TRUE
    ELSE IF nodeExists(s, node) THEN contains(nodeInputs(s, node), inputNode)
    ELSE FALSE

\* addInput(node, inputNode)
addInput(s, node, inputNode, rej) ==
    IF nodeExists(s, node)
    THEN setInputs(s, node, Append(nodeInputs(s, node), inputNode), rej)
    ELSE [s |-> s, ok |-> TRUE]

\* The least name no node has (0 when the session is full).
FreshNode(s) ==
    IF \E n \in Nodes : s.nodeType[n] = ""
    THEN CHOOSE n \in Nodes : s.nodeType[n] = "" /\ \A m \in 1..(n - 1) : s.nodeType[m] # ""
    ELSE NoNode

\* extra_commands.setUIName(node, name): the write and its graph-state-change.
setUIName(s, node, name) ==
    propertyChanged([s EXCEPT !.uiName[node] = name], "ui", "name")

\* commands.newNode(type, name) and commands.addSourceVerbose([file]): the new
\* node, and the new-node event (updateTreeEvent).
newNode(s, type, n, name) ==
    updateTree([s EXCEPT !.nodeType[n] = type, !.uiName[n] = name])

\* setExpandedInParent(node, parent, expanded)
setExpandedInParent(s, node, parent, expanded) ==
    LET p == s.expandState[node]
    IN  IF p.ex
        THEN IF contains(p.v, parent) /\ ~expanded
             THEN setProperty(s, "expandState", node, remove(p.v, parent))
             ELSE IF ~contains(p.v, parent) /\ expanded
             THEN setProperty(s, "expandState", node, Append(p.v, parent))
             ELSE s
        ELSE setProperty(s, "expandState", node, <<parent>>)

\* isExpandedInParent(node, parent)
isExpandedInParent(s, node, parent) ==
    s.expandState[node].ex /\ contains(s.expandState[node].v, parent)

\* isSubComponentExpanded(node, item)
isSubComponentExpanded(s, node, item) ==
    /\ s.expandedSubState[node].ex
    /\ contains(s.expandedSubState[node].v, hashedSubComponentFromItem(item))

\* setSubComponentExpanded(node, item, expanded)
setSubComponentExpanded(s, node, item, expanded) ==
    LET p == s.expandedSubState[node]
        key == hashedSubComponentFromItem(item)
    IN  IF p.ex
        THEN IF contains(p.v, key) /\ ~expanded
             THEN setProperty(s, "expandedSubState", node, remove(p.v, key))
             ELSE IF ~contains(p.v, key) /\ expanded
             THEN setProperty(s, "expandedSubState", node, Append(p.v, key))
             ELSE s
        ELSE setProperty(s, "expandedSubState", node, <<key>>)

\* componentAndFolderNodeFromHash that takes any materialized node of the
\* owner, whatever its hash.
RECURSIVE componentAndFolderNodeFromHashAnyHash(_, _, _, _, _, _)
componentAndFolderNodeFromHashAnyHash(s, hash_val, node, n, cnode, folder) ==
    IF n > MaxNodes THEN [cnode |-> cnode, folder |-> folder]
    ELSE IF s.nodeType[n] = Source /\ cnode = NoNode
    THEN componentAndFolderNodeFromHashAnyHash(s, hash_val, node, n + 1,
             IF /\ s.componentHash[n].ex
                /\ s.componentOfNode[n].v = <<node>>
             THEN n ELSE cnode,
             folder)
    ELSE IF s.nodeType[n] = Folder
    THEN componentAndFolderNodeFromHashAnyHash(s, hash_val, node, n + 1, cnode,
             IF /\ s.componentFolderOfNode[n].ex
                /\ s.componentFolderOfNode[n].v = <<node>>
             THEN n ELSE folder)
    ELSE componentAndFolderNodeFromHashAnyHash(s, hash_val, node, n + 1, cnode, folder)

\* componentAndFolderNodeFromHash that finds the components folder of the
\* owner but never a materialized node.
componentAndFolderNodeFromHashNoNode(s, hash_val, node, n, cnode, folder) ==
    [cnode |-> NoNode,
     folder |-> IF \E f \in Nodes : /\ s.nodeType[f] = Folder
                                    /\ s.componentFolderOfNode[f].ex
                                    /\ s.componentFolderOfNode[f].v = <<node>>
                THEN CHOOSE f \in Nodes :
                         /\ s.nodeType[f] = Folder
                         /\ s.componentFolderOfNode[f].ex
                         /\ s.componentFolderOfNode[f].v = <<node>>
                         /\ \A g \in Nodes :
                               (/\ s.nodeType[g] = Folder
                                /\ s.componentFolderOfNode[g].ex
                                /\ s.componentFolderOfNode[g].v = <<node>>)
                               => g <= f
                ELSE NoNode]

\* componentAndFolderNodeFromHash(hash_val, node): the scan of commands.nodes()
\* from node n on, with the component node and the folder found so far.
RECURSIVE componentAndFolderNodeFromHash(_, _, _, _, _, _)
componentAndFolderNodeFromHash(s, hash_val, node, n, cnode, folder) ==
    IF n > MaxNodes THEN [cnode |-> cnode, folder |-> folder]
    ELSE IF s.nodeType[n] = Source /\ cnode = NoNode
    THEN componentAndFolderNodeFromHash(s, hash_val, node, n + 1,
             IF /\ s.componentHash[n].ex
                /\ s.componentHash[n].v = <<hash_val>>
                /\ s.componentOfNode[n].v = <<node>>
             THEN n ELSE cnode,
             folder)
    ELSE IF s.nodeType[n] = Folder
    THEN componentAndFolderNodeFromHash(s, hash_val, node, n + 1, cnode,
             IF /\ s.componentFolderOfNode[n].ex
                /\ s.componentFolderOfNode[n].v = <<node>>
             THEN n ELSE folder)
    ELSE componentAndFolderNodeFromHash(s, hash_val, node, n + 1, cnode, folder)

\* newSubComponentNode, the new components folder f of the owner: its name,
\* its componentFolderOfNode property and its collapsed state.
newComponentsFolder(s, node, f) ==
    setExpandedInParent(
        setProperty(setUIName(newNode(s, Folder, f, "components"), f,
                              "Components of " \o s.uiName[node]),
                    "componentFolderOfNode", f, <<node>>),
        f, NoNode, FALSE)

\* newSubComponentNode, the new source groupNode becomes an input of the
\* folder: commands.setNodeInputs(folder, inputs), with no testNodeInputs.
addToComponentsFolder(s, f, groupNode) ==
    setNodeInputs(s, f, Append(nodeInputs(s, f), groupNode))

\* newSubComponentNode, the properties of the new source: its owner, its hash,
\* its name and, but for a media sub-component, its image component request.
SubComponentName(nodeName, subType, fullName) ==
    nodeName \o " ("
    \o (IF subType = MediaSubComponent THEN "Media"
        ELSE IF subType = ViewSubComponent THEN "View"
        ELSE IF subType = LayerSubComponent THEN "Layer"
        ELSE "Channel")
    \o " " \o (IF fullName = "" THEN "default" ELSE fullName) \o ")"

nameSubComponent(s, subType, fullName, node, groupNode) ==
    IF subType \in {MediaSubComponent, ViewSubComponent, LayerSubComponent,
                    ChannelSubComponent}
    THEN setUIName(s, groupNode, SubComponentName(s.uiName[node], subType, fullName))
    ELSE s

requestSubComponent(s, subType, compPropValue, groupNode) ==
    IF subType \in {ViewSubComponent, LayerSubComponent, ChannelSubComponent}
    THEN setProperty(s, "imageComponent", groupNode, compPropValue)
    ELSE s

\* newSubComponentNode after commands.addSourceVerbose made groupNode.
newSubComponentNodeOf(s, hash_val, subType, fullName, compPropValue, node, folder, groupNode, f) ==
    requestSubComponent(
        nameSubComponent(
            setProperty(
                setProperty(
                    addToComponentsFolder(
                        IF folder = NoNode THEN newComponentsFolder(s, node, f)
                        ELSE s,
                        f, groupNode),
                    "componentOfNode", groupNode, <<node>>),
                "componentHash", groupNode, <<hash_val>>),
            subType, fullName, node, groupNode),
        subType, compPropValue, groupNode)

\* The name of the node newNode makes next when n is the newest node.
FreshAfter(s, n) ==
    IF \E m \in Nodes : m # n /\ s.nodeType[m] = ""
    THEN CHOOSE m \in Nodes :
             /\ m # n /\ s.nodeType[m] = ""
             /\ \A k \in 1..(m - 1) : k = n \/ s.nodeType[k] # ""
    ELSE NoNode

\* newSubComponentNode(hash_val, subType, filename, fullName, compPropValue,
\* node, folder).  fails: commands.addSourceVerbose raises (the file cannot be
\* read), and the exception leaves the function.
newSubComponentNode(s, hash_val, subType, fullName, compPropValue, node, folder, fails) ==
    IF fails THEN [s |-> s, node |-> NoNode, raised |-> TRUE]
    ELSE [s |-> newSubComponentNodeOf(
                    newNode(s, Source, FreshNode(s), MediaFile), hash_val,
                    subType, fullName, compPropValue, node, folder, FreshNode(s),
                    IF folder = NoNode THEN FreshAfter(s, FreshNode(s)) ELSE folder),
          node |-> FreshNode(s), raised |-> FALSE]

\* sourceFromSubComponent(item, node)
sourceFromSubComponentFound(s, item, node, fails, hash_val, found) ==
    IF found.cnode # NoNode
    THEN [s |-> s, node |-> found.cnode, raised |-> FALSE]
    ELSE newSubComponentNode(s, hash_val, item.subType, item.value,
                             subComponentPropValue(item), node, found.folder, fails)

sourceFromSubComponent(s, item, node, fails) ==
    sourceFromSubComponentFound(
        s, item, node, fails, hashedSubComponentFromItem(item),
        componentAndFolderNodeFromHash(s, hashedSubComponentFromItem(item), node,
                                       1, NoNode, NoNode))

\* selectedConvertedSubComponents: the nodes of the selected items (items from
\* index i on, nodes collected so far), sub-component items materialized
\* between disableUpdates = True and disableUpdates = False; r is what
\* sourceFromSubComponent returned for item i.
RECURSIVE selectedConvertedSubComponents(_, _, _, _, _)
convertedSubComponent(r, items, i, nodes, fails) ==
    IF r.raised THEN [s |-> r.s, nodes |-> nodes, raised |-> TRUE]
    ELSE selectedConvertedSubComponents(
             [r.s EXCEPT !.disableUpdates = FALSE], items, i + 1,
             IF r.node # NoNode THEN Append(nodes, r.node) ELSE nodes, fails)

selectedConvertedSubComponents(s, items, i, nodes, fails) ==
    IF i > Len(items) THEN [s |-> s, nodes |-> nodes, raised |-> FALSE]
    ELSE IF ~nodeExists(s, items[i].node)
    THEN selectedConvertedSubComponents(s, items, i + 1, nodes, fails)
    ELSE IF items[i].subType # NotASubComponent
    THEN convertedSubComponent(
             sourceFromSubComponent([s EXCEPT !.disableUpdates = TRUE],
                                    items[i], items[i].node, fails),
             items, i, nodes, fails)
    ELSE selectedConvertedSubComponents(s, items, i + 1,
                                        Append(nodes, items[i].node), fails)

\* renameByType(node, inputs).  re.match("Group$", basename) matches at the
\* start of the string only, so the type keeps its "Group".
renameByType(s, node, ins) ==
    LET n == Len(ins)
        ntype == s.nodeType[node]
        basename == IF ntype = Folder THEN "FolderGroup"
                    ELSE IF ntype = Stack THEN "StackGroup"
                    ELSE IF ntype = Source THEN "SourceGroup"
                    ELSE ntype
        name == IF n = 0 THEN "Empty " \o basename
                ELSE IF n = 1 THEN basename \o " of " \o s.uiName[ins[1]]
                ELSE IF n = 2
                THEN basename \o " of " \o s.uiName[ins[1]] \o " and "
                     \o s.uiName[ins[2]]
                ELSE basename \o " of " \o ToString(n) \o " views"
    IN  setUIName(s, node, name)

\* commands.setViewNode(node): the view node and the after-graph-view-change
\* event (afterGraphViewChange: selectViewableNode).
setViewNode(s, node) ==
    selectViewableNode([s EXCEPT !.viewNode = node, !.viewCalls = Append(@, node)])

\* commands.deleteNode(node) of a node nothing is connected to, and the
\* after-node-delete event (updateTreeEvent).
deleteNode(s, node) ==
    updateTree([s EXCEPT !.nodeType[node] = "", !.inputs[node] = <<>>,
                         !.uiName[node] = ""])

\* sortFolderChildren without its test that the folder is queued already.
sortFolderChildrenNoTest(s, folder) ==
    IF nodeExists(s, folder) /\ s.nodeType[folder] = Folder
    THEN [s EXCEPT !.sortFolders = Append(@, folder), !.sortTimer = TRUE]
    ELSE s

\* NodeTreeView.sortFolderChildren(folder)
sortFolderChildren(s, folder) ==
    IF nodeExists(s, folder) /\ s.nodeType[folder] = Folder
    THEN [s EXCEPT !.sortFolders = IF contains(@, folder) THEN @ ELSE Append(@, folder),
                   !.sortTimer = TRUE]
    ELSE s

\* ------------------------------------------------------ drag/drop reconciliation
\* The loop of the Move branch over the dragged paths of the node (paths from
\* index i on): the node leaves every former parent but the new one.
RECURSIVE removeFromFormerParents(_, _, _, _, _)
removeFromFormerParents(s, nodePaths, i, parent, rej) ==
    IF i > Len(nodePaths) THEN s
    ELSE LET n == nodePaths[i][1]
             p == nodePaths[i][2]
         IN  removeFromFormerParents(
                 IF nodeExists(s, p) /\ (~nodeExists(s, parent) \/ p # parent)
                 THEN removeInput(s, p, n, rej).s
                 ELSE s,
                 nodePaths, i + 1, parent, rej)

\* The dragged paths whose first entry is the node (filteredDraggedPaths).
RECURSIVE filteredDraggedPaths(_, _)
filteredDraggedPaths(paths, node) ==
    IF paths = <<>> THEN <<>>
    ELSE (IF Head(paths)[1] = node THEN <<Head(paths)>> ELSE <<>>)
         \o filteredDraggedPaths(Tail(paths), node)

\* viewItemChanged(item): the itemChanged signal of the tree model for an item
\* of node under the item of parent, whose parent role holds role and whose
\* text is text.  item.setData(newRole, USER_ROLE_PARENT_NODE) sends
\* itemChanged again, inside the call, when it changes the role.
RECURSIVE viewItemChanged(_, _, _, _, _, _, _)
setParentRole(s, node, subType, text, parent, role, newRole, rej) ==
    IF role # newRole
    THEN viewItemChanged(s, node, subType, text, parent, newRole, rej)
    ELSE s

sortIfFolder(s, parent) ==
    IF parent # NoNode /\ nodeExists(s, parent) /\ s.nodeType[parent] = Folder
    THEN sortFolderChildren(s, parent)
    ELSE s

viewItemChanged(s, node, subType, text, parent, role, rej) ==
    IF s.dropAction = "CopyAction"
    THEN IF ~hasInput(s, parent, node)
         THEN sortIfFolder(
                  setParentRole(addInput(s, parent, node, rej).s, node, subType,
                                text, parent, role, parent, rej),
                  parent)
         ELSE s
    ELSE IF /\ s.dropAction = "MoveAction"
            /\ filteredDraggedPaths(s.draggedNodePaths, node) # <<>>
    THEN sortIfFolder(
             removeFromFormerParents(
                 setParentRole(
                     IF /\ parent # NoNode /\ nodeExists(s, parent)
                        /\ ~hasInput(s, parent, node)
                     THEN addInput(s, parent, node, rej).s
                     ELSE s,
                     node, subType, text, parent, role,
                     IF parent # NoNode /\ nodeExists(s, parent)
                     THEN parent ELSE NoNode,
                     rej),
                 filteredDraggedPaths(s.draggedNodePaths, node), 1, parent, rej),
             parent)
    ELSE IF node # NoNode /\ subType = NotASubComponent
    THEN [setUIName([s EXCEPT !.disableUpdates = TRUE], node, text)
             EXCEPT !.disableUpdates = FALSE]
    ELSE s

\* The tree rows under the dropped-on item after Qt's own part of a drop: the
\* dragged rows are appended, and a MoveAction takes the originals away.
RECURSIVE removeFirst(_, _)
removeFirst(array, value) ==
    IF array = <<>> THEN <<>>
    ELSE IF Head(array) = value THEN Tail(array)
    ELSE <<Head(array)>> \o removeFirst(Tail(array), value)

RECURSIVE dropRows(_, _, _, _, _)
dropRows(model, paths, i, target, action) ==
    IF i > Len(paths) THEN model
    ELSE LET n == paths[i][1]
             p == paths[i][2]
             m1 == [model EXCEPT ![target] = Append(@, n)]
             m2 == IF action = "MoveAction"
                   THEN [m1 EXCEPT ![p] = removeFirst(@, n)]
                   ELSE m1
         IN  dropRows(m2, paths, i + 1, target, action)

\* The itemChanged signals of one drop, one for each dropped row.
RECURSIVE dropItems(_, _, _, _, _)
dropItems(s, paths, i, target, rej) ==
    IF i > Len(paths) THEN s
    ELSE dropItems(viewItemChanged(s, paths[i][1], NotASubComponent,
                                   s.uiName[paths[i][1]], target, paths[i][2], rej),
                   paths, i + 1, target, rej)

\* NodeTreeView.dropEvent: the drop of the dragged rows on the row of target
\* (0: the FOLDERS category) with the given drop action.
dropEvent(s, target, action, rej) ==
    [dropItems([s EXCEPT !.dropAction = action], s.draggedNodePaths, 1, target, rej)
        EXCEPT !.viewModel = dropRows(@, s.draggedNodePaths, 1, target, action),
               !.dropAction = "IgnoreAction"]

\* NodeTreeView._doSortFolders with assignSortOrder: the rows of every queued
\* folder get their row index as sort key.
RECURSIVE assignSortOrder(_, _, _)
assignSortOrder(s, rootNode, i) ==
    IF i > Len(s.viewModel[rootNode]) THEN s
    ELSE assignSortOrder(
             setSortKeyInParent(s, s.viewModel[rootNode][i], rootNode, i - 1),
             rootNode, i + 1)

RECURSIVE doSortFolders(_, _)
doSortFolders(s, i) ==
    IF i > Len(s.sortFolders) THEN [s EXCEPT !.sortFolders = <<>>]
    ELSE doSortFolders(
             IF InTree(s, s.sortFolders[i])
             THEN assignSortOrder(s, s.sortFolders[i], 1)
             ELSE s,
             i + 1)

\* The loop of rebuildInputsFromList over the rows of the inputs list (rows
\* from index row on, nodes collected so far).  A row whose materialization
\* raises is skipped.
RECURSIVE rebuildRows(_, _, _, _)
rebuildNewSubComponent(r, s, row, nodes, fails) ==
    IF r.raised THEN rebuildRows(s, row + 1, nodes, fails)
    ELSE rebuildRows(r.s, row + 1, Append(nodes, r.node), fails)

rebuildSubComponentRow(s, row, nodes, fails, item, found) ==
    IF found.cnode = NoNode
    THEN rebuildNewSubComponent(
             newSubComponentNode(s, item.hash, item.subType, item.value,
                                 subComponentPropValue(item), item.node,
                                 found.folder, fails),
             s, row, nodes, fails)
    ELSE rebuildRows(s, row + 1, Append(nodes, found.cnode), fails)

rebuildRows(s, row, nodes, fails) ==
    IF row > Len(s.inputsModel) THEN [s |-> s, nodes |-> nodes]
    ELSE IF s.inputsModel[row].subType # NotASubComponent
    THEN rebuildSubComponentRow(
             s, row, nodes, fails, s.inputsModel[row],
             componentAndFolderNodeFromHash(s, s.inputsModel[row].hash,
                                            s.inputsModel[row].node, 1, NoNode,
                                            NoNode))
    ELSE rebuildRows(s, row + 1, Append(nodes, s.inputsModel[row].node), fails)

\* rebuildInputsFromList that leaves the inputs list as it is when the Facade
\* refuses the inputs.
rebuildSetInputsNoResync(t, vnode) ==
    t.s

\* rebuildInputsFromList: the inputs timer's timeout.  r is what the loop over
\* the rows returned, t what setInputs returned.
rebuildSetInputs(t, vnode) ==
    IF t.ok THEN t.s ELSE updateInputs(t.s, vnode)

rebuildAfterRows(r, vnode, rej) ==
    rebuildSetInputs(
        setInputs([setViewNode(r.s, vnode) EXCEPT !.disableUpdates = FALSE],
                  vnode, r.nodes, rej),
        vnode)

rebuildInputsFromList(s, rej, fails) ==
    IF s.inputOrderLock \/ s.viewNode = NoNode THEN s
    ELSE rebuildAfterRows(
             rebuildRows([s EXCEPT !.disableUpdates = TRUE], 1, <<>>, fails),
             s.viewNode, rej)

\* addNodeOfType(typename), with the selected tree items.  An exception of
\* selectedConvertedSubComponents leaves the slot.  r is what
\* selectedConvertedSubComponents returned, t what setInputs returned.
addNodeOfTypeSetInputs(t, n, nodes) ==
    IF ~t.ok THEN deleteNode(t.s, n)
    ELSE setViewNode(renameByType(t.s, n, nodes), n)

addNodeOfTypeNodes(r, typename, rej) ==
    IF r.raised THEN r.s
    ELSE addNodeOfTypeSetInputs(
             setInputs(newNode(r.s, typename, FreshNode(r.s), ""),
                       FreshNode(r.s), r.nodes, rej),
             FreshNode(r.s), r.nodes)

addNodeOfType(s, typename, items, rej, fails) ==
    addNodeOfTypeNodes(selectedConvertedSubComponents(s, items, 1, <<>>, fails),
                       typename, rej)

\* The loop of newFolderSlot(2) over the selected paths.
RECURSIVE removeSelected(_, _, _, _)
removeSelected(s, paths, i, rej) ==
    IF i > Len(paths) THEN s
    ELSE removeSelected(
             IF nodeExists(s, paths[i][2])
             THEN removeInput(s, paths[i][2], paths[i][1], rej).s
             ELSE s,
             paths, i + 1, rej)

\* newFolderSlot(which), with the selected paths: the folder joins the parent
\* of the first selected row, with that row's sort key.
folderToFirstParent(s, first, folder, rej) ==
    IF nodeExists(s, first[2])
    THEN setSortKeyInParent(addInput(s, first[2], folder, rej).s, folder,
                            first[2], sortKeyInParent(s, first[1], first[2]))
    ELSE s

\* newFolderSlot(which) after the folder got the selected nodes as inputs.
newFolderOfSelection(s, which, paths, folder, rej) ==
    [folderToFirstParent(
         IF which = 2
         THEN removeSelected([s EXCEPT !.disableUpdates = TRUE], paths, 1, rej)
         ELSE [s EXCEPT !.disableUpdates = TRUE],
         paths[1], folder, rej)
        EXCEPT !.disableUpdates = FALSE]

\* newFolderSlot(which), its end: the rename and the view change.
newFolderNamed(s, which, paths, folder) ==
    IF paths # <<>> THEN setViewNode(s, folder) ELSE s

newFolderRenamed(s, which, paths, folder) ==
    newFolderNamed(
        [renameByType([s EXCEPT !.disableUpdates = TRUE], folder,
                      IF which = 1 THEN <<>>
                      ELSE [i \in 1..Len(paths) |-> paths[i][1]])
            EXCEPT !.disableUpdates = FALSE],
        which, paths, folder)

\* newFolderSlot(which) after setInputs(folder, nodes) returned t.
newFolderSetInputs(t, which, paths, folder, rej) ==
    IF ~t.ok THEN deleteNode(t.s, folder)
    ELSE newFolderRenamed(newFolderOfSelection(t.s, which, paths, folder, rej),
                          which, paths, folder)

\* newFolderSlot(which) after commands.newNode made the folder.
newFolderMade(s, which, paths, folder, rej) ==
    IF paths = <<>> THEN newFolderRenamed(s, which, paths, folder)
    ELSE IF which # 1
    THEN newFolderSetInputs(
             setInputs(s, folder, [i \in 1..Len(paths) |-> paths[i][1]], rej),
             which, paths, folder, rej)
    ELSE newFolderRenamed(newFolderOfSelection(s, which, paths, folder, rej),
                          which, paths, folder)

newFolderSlot(s, which, paths, rej) ==
    newFolderMade(newNode(s, Folder, FreshNode(s), "Folder"), which, paths,
                  FreshNode(s), rej)

\* The end of viewByIndex: updateInputs(commands.viewNode()).
refreshInputs(s) == updateInputs(s, s.viewNode)

\* "#RVSource.request.imageComponent": the request property of the source of
\* the view node; reading it raises when the view node is no source.  A
\* source that never got a request holds the empty default.
requestSource(s) == IF s.nodeType[s.viewNode] = Source THEN s.viewNode ELSE NoNode

\* isImageRequestPropEqual("imageComponent", array)
isImageRequestPropEqual(s, array) ==
    requestSource(s) # NoNode /\ s.imageComponent[requestSource(s)].v = array

\* setImageRequestProp("imageComponent", array): writes when the value differs.
setImageRequestProp(s, array) ==
    IF requestSource(s) # NoNode /\ s.imageComponent[requestSource(s)].v # array
    THEN propertyChanged([s EXCEPT !.imageComponent[requestSource(s)] = Prop(array)],
                         "request", "imageComponent")
    ELSE s

\* setImageRequest that never toggles.
setImageRequestNoToggle(s, value, toggle) == setImageRequestProp(s, value)

\* setImageRequest(value, toggle)
setImageRequest(s, value, toggle) ==
    IF toggle /\ isImageRequestPropEqual(s, value)
    THEN setImageRequestProp(s, <<>>)
    ELSE setImageRequestProp(s, value)

\* viewByIndex(index, model) for an item of the tree or of the inputs list:
\* the view change, then the image request of a sub-component item.
viewByIndexView(s, item) ==
    IF s.viewNode # item.node THEN setViewNode(s, item.node) ELSE s

viewByIndexRequest(s, item, viewChange) ==
    IF item.subType # NotASubComponent
    THEN setImageRequest(s, subComponentPropValue(item), ~viewChange)
    ELSE s

viewByIndex(s, item) ==
    IF item.node = NoNode THEN s
    ELSE refreshInputs(
             [viewByIndexRequest(
                  viewByIndexView([s EXCEPT !.disableUpdates = TRUE], item),
                  item, s.viewNode # item.node)
                 EXCEPT !.disableUpdates = FALSE])

\* ---------------------------------------------------- reorder and sort inputs
\* The least and the greatest of a non-empty set of row indices.
minRowOf(indices) == CHOOSE i \in indices : \A j \in indices : i <= j
maxRowOf(indices) == CHOOSE i \in indices : \A j \in indices : i >= j

\* reorderSelected, the loop body: the new index of row i (rows count from 0).
reorderedIndex(i, indices, up) ==
    LET d == IF up THEN -1 ELSE 1
    IN  IF i \in indices THEN i + d
        ELSE IF i >= minRowOf(indices) + d /\ i <= maxRowOf(indices) + d
        THEN i - d * Cardinality(indices)
        ELSE i

\* reorderSelected, the loop: newNodes[newIndex] = the node of row i, for the
\* rows in order, when newIndex is a row of the list ("" stays elsewhere).
RECURSIVE reorderedNodes(_, _, _, _, _)
reorderedNodes(model, i, indices, up, newNodes) ==
    IF i >= Len(model) THEN newNodes
    ELSE reorderedNodes(model, i + 1, indices, up,
             IF reorderedIndex(i, indices, up) \in 0..(Len(model) - 1)
             THEN [newNodes EXCEPT ![reorderedIndex(i, indices, up) + 1] =
                                       model[i + 1].node]
             ELSE newNodes)

\* [n for n in newNodes if n]
RECURSIVE nonEmptyNodes(_)
nonEmptyNodes(newNodes) ==
    IF newNodes = <<>> THEN <<>>
    ELSE (IF Head(newNodes) # NoNode THEN <<Head(newNodes)>> ELSE <<>>)
         \o nonEmptyNodes(Tail(newNodes))

\* reorderSelected(up) with the selected rows of the inputs list (indices from
\* 0).  The boundary test compares the selection with the number of inputs of
\* the view node in the graph, the loop runs over the rows of the list.
reorderSelected(s, up, indices, rej) ==
    IF indices = {} THEN s
    ELSE IF (up /\ minRowOf(indices) = 0)
            \/ (~up /\ maxRowOf(indices) = Len(nodeInputs(s, s.viewNode)) - 1)
    THEN s
    ELSE setInputs(s, s.viewNode,
                   nonEmptyNodes(reorderedNodes(s.inputsModel, 0, indices, up,
                                     [k \in 1..Len(s.inputsModel) |-> NoNode])),
                   rej).s

\* The display names of the inputs that sortInputs sorts in the model, in
\* Python's string order, and the place of a name in that order.
NameOrder == <<"A", "B", "C", "V">>
nameKey(name) == CHOOSE i \in 1..Len(NameOrder) : NameOrder[i] = name

\* sorted(inputs, key=uiName, reverse=not ascending): Python's sort is stable
\* in both directions, so inputs with equal names keep their order.  x goes
\* before the first input that sorts strictly after it.
RECURSIVE insertByName(_, _, _, _, _)
insertByName(s, sorted, x, ascending, i) ==
    IF i > Len(sorted) THEN Append(sorted, x)
    ELSE IF (ascending /\ nameKey(s.uiName[x]) < nameKey(s.uiName[sorted[i]]))
            \/ (~ascending /\ nameKey(s.uiName[x]) > nameKey(s.uiName[sorted[i]]))
    THEN SubSeq(sorted, 1, i - 1) \o <<x>> \o SubSeq(sorted, i, Len(sorted))
    ELSE insertByName(s, sorted, x, ascending, i + 1)

\* sorted(inputs, key=uiName) whatever the direction asked for.
RECURSIVE sortedByNameAscending(_, _, _)
sortedByNameAscending(s, list, ascending) ==
    IF list = <<>> THEN <<>>
    ELSE insertByName(s, sortedByNameAscending(s, SubSeq(list, 1, Len(list) - 1), TRUE),
                      list[Len(list)], TRUE, 1)

RECURSIVE sortedByName(_, _, _)
sortedByName(s, list, ascending) ==
    IF list = <<>> THEN <<>>
    ELSE insertByName(s, sortedByName(s, SubSeq(list, 1, Len(list) - 1), ascending),
                      list[Len(list)], ascending, 1)

\* sortInputs, the loop over a folder's sorted inputs: the index is the key.
RECURSIVE sortInputsKeys(_, _, _, _)
sortInputsKeys(s, node, sorted_inputs, i) ==
    IF i > Len(sorted_inputs) THEN s
    ELSE sortInputsKeys(setSortKeyInParent(s, sorted_inputs[i], node, i - 1),
                        node, sorted_inputs, i + 1)

\* sortInputs after setInputs returned t.
sortInputsSet(t, node, sorted_inputs) ==
    IF t.s.nodeType[node] = Folder
    THEN updateTree(sortInputsKeys(IF t.ok THEN t.s ELSE updateInputs(t.s, node),
                                   node, sorted_inputs, 1))
    ELSE IF t.ok THEN t.s ELSE updateInputs(t.s, node)

sortInputsSorted(s, node, sorted_inputs, rej) ==
    sortInputsSet(setInputs(s, node, sorted_inputs, rej), node, sorted_inputs)

\* sortInputs(ascending)
sortInputs(s, ascending, rej) ==
    IF s.inputOrderLock \/ s.viewNode = NoNode THEN s
    ELSE sortInputsSorted(s, s.viewNode,
                          sortedByName(s, nodeInputs(s, s.viewNode), ascending), rej)

\* ------------------------------------------------------- floating-point numbers
\* The program's numbers are binary floating-point values (Python float):
\* every arithmetic result is the exact result rounded to the nearest
\* representable value, ties to even.  A value is m * 2^e with |m| < 2^FloatBits;
\* the model keeps the rounding rule and shortens the significand.
FloatBits == 5

\* The canonical form of m * 2^e: m odd, or zero.
RECURSIVE Norm(_, _)
Norm(m, e) ==
    IF m = 0 THEN [m |-> 0, e |-> 0]
    ELSE IF m % 2 = 0 THEN Norm(m \div 2, e + 1)
    ELSE [m |-> m, e |-> e]

\* The number of bits of the natural number n.
RECURSIVE BitLen(_)
BitLen(n) == IF n = 0 THEN 0 ELSE 1 + BitLen(n \div 2)

\* (n / d) * 2^e rounded to FloatBits bits, for n / d >= 2^(FloatBits - 1).
RoundedQuotient(n, d, k) ==
    IF 2 * (n % (d * 2^k)) > d * 2^k
       \/ (2 * (n % (d * 2^k)) = d * 2^k /\ (n \div (d * 2^k)) % 2 = 1)
    THEN (n \div (d * 2^k)) + 1
    ELSE n \div (d * 2^k)

RoundRat(n, d, e) ==
    Norm(RoundedQuotient(n, d, BitLen(n \div d) - FloatBits),
         e + BitLen(n \div d) - FloatBits)

Negate(x) == [m |-> -x.m, e |-> x.e]
Abs(n) == IF n < 0 THEN -n ELSE n

\* The integer i * 2^e rounded.
RoundInt(i, e) ==
    IF Abs(i) < 2^FloatBits THEN Norm(i, e)
    ELSE IF i < 0 THEN Negate(RoundRat(-i, 1, e))
    ELSE RoundRat(i, 1, e)

\* float(i) of an integer, and the float operations x + y, x - y, x * y,
\* x / y (y not zero), math.sqrt(x), abs(x), x < y.
Float(i) == RoundInt(i, 0)

Min(a, b) == IF a < b THEN a ELSE b

FAdd(x, y) ==
    IF x.m = 0 THEN y
    ELSE IF y.m = 0 THEN x
    ELSE RoundInt(x.m * 2^(x.e - Min(x.e, y.e)) + y.m * 2^(y.e - Min(x.e, y.e)),
                  Min(x.e, y.e))

FSub(x, y) == FAdd(x, Negate(y))

FMul(x, y) == RoundInt(x.m * y.m, x.e + y.e)

FDivAbs(x, y) ==
    RoundRat(Abs(x.m) * 2^(2 * FloatBits), Abs(y.m), x.e - y.e - 2 * FloatBits)

FDiv(x, y) ==
    IF x.m = 0 THEN x
    ELSE IF (x.m < 0) # (y.m < 0) THEN Negate(FDivAbs(x, y))
    ELSE FDivAbs(x, y)

FAbs(x) == [m |-> Abs(x.m), e |-> x.e]

FLess(x, y) ==
    x.m * 2^(x.e - Min(x.e, y.e)) < y.m * 2^(y.e - Min(x.e, y.e))

\* The integer square root of n.
ISqrt(n) == CHOOSE r \in 0..(2^(FloatBits + 2)) : r * r <= n /\ n < (r + 1) * (r + 1)

\* math.sqrt(x) of m * 2^e >= 0: the root of the significand widened to
\* 2 * FloatBits + 2 or 2 * FloatBits + 3 bits over an even exponent, then
\* rounded; the root's low bits and whether it is exact decide the rounding.
SqrtWiden(x) ==
    IF (x.e - (2 * FloatBits + 2 - BitLen(x.m))) % 2 = 0
    THEN 2 * FloatBits + 2 - BitLen(x.m)
    ELSE 2 * FloatBits + 3 - BitLen(x.m)

SqrtRounded(n, r, k) ==
    IF r % 2^k > 2^(k - 1) \/ (r % 2^k = 2^(k - 1) /\ r * r # n)
       \/ (r % 2^k = 2^(k - 1) /\ r * r = n /\ (r \div 2^k) % 2 = 1)
    THEN (r \div 2^k) + 1
    ELSE r \div 2^k

SqrtOf(n, e) ==
    Norm(SqrtRounded(n, ISqrt(n), BitLen(ISqrt(n)) - FloatBits),
         e + BitLen(ISqrt(n)) - FloatBits)

FSqrt(x) ==
    IF x.m = 0 THEN x
    ELSE SqrtOf(x.m * 2^SqrtWiden(x), (x.e - SqrtWiden(x)) \div 2)

\* ------------------------------------------------------ transform manipulator
\* The transform nodes of the view (RVTransform2D), by name.
ManipNodes == 1..MaxManipNodes

\* A point or a vector: a pair of floats.
Pt(x, y) == <<Float(x), Float(y)>>
Origin == Pt(0, 0)

vsub(a, b) == <<FSub(a[1], b[1]), FSub(a[2], b[2])>>

\* EditNodePair(tformNode, inputNode), and None for _currentEditNode.  obj is
\* the identity of the object (the tests of move are "is" and "is not"): the
\* pairs of activate() are objects 0, and findEditingNodes makes new objects.
EditNodePair(tformNode, inputNode) ==
    [tformNode |-> tformNode, inputNode |-> inputNode, obj |-> 0]
NoEditNode == EditNodePair(NoNode, NoNode)

\* The manipulator's state as one record, and the action that makes a record
\* the next state.
ManipCur ==
    [editNodes |-> editNodes, currentEditNode |-> currentEditNode,
     control |-> control, gc |-> gc, corner |-> corner, downPoint |-> downPoint,
     editing |-> editing, didDrag |-> didDrag, tmanipState |-> tmanipState,
     translate |-> translate, scale |-> scale, renderedImages |-> renderedImages,
     tformExists |-> tformExists, tmanip |-> tmanip, manipOp |-> manipOp, propWrites |-> propWrites, dragRun |-> dragRun,
     nManip |-> nManip]

ManipApply(s) ==
    /\ editNodes' = s.editNodes
    /\ currentEditNode' = s.currentEditNode
    /\ control' = s.control
    /\ gc' = s.gc
    /\ corner' = s.corner
    /\ downPoint' = s.downPoint
    /\ editing' = s.editing
    /\ didDrag' = s.didDrag
    /\ tmanipState' = s.tmanipState
    /\ translate' = s.translate
    /\ scale' = s.scale
    /\ renderedImages' = s.renderedImages
    /\ tformExists' = s.tformExists
    /\ tmanip' = s.tmanip
    /\ manipOp' = s.manipOp
    /\ propWrites' = s.propWrites
    /\ dragRun' = s.dragRun
    /\ nManip' = s.nManip
    /\ UNCHANGED smVars

\* No run of free-translation drag steps.
NoRun == [n |-> 0, node |-> NoNode, from |-> Origin, trans |-> Origin]

\* A handler starts with the pointer at p: its name, and an empty write log.
ManipBegin(s, name, p) ==
    [s EXCEPT !.manipOp = [op |-> name, p |-> p], !.propWrites = <<>>,
              !.dragRun = IF name = "drag" THEN @ ELSE NoRun, !.nManip = @ + 1]

\* commands.imageGeometryByIndex(index): the four corners of the rendered image
\* of transform node index, from the lower left one around: the images are
\* rectangles 80 by 40 pixels, side by side.
imageGeometryByIndex(index) ==
    <<Pt(96 * (index - 1), 0), Pt(96 * (index - 1) + 80, 0),
      Pt(96 * (index - 1) + 80, 40), Pt(96 * (index - 1), 40)>>

\* commands.imagesAtPixel(p): the first rendered image that has p inside and
\* carries the tmanip tag, which findEditingNodes gives a transform node with
\* the node's name as its value; NoNode if there is none.
inside(p, corners) ==
    /\ ~FLess(p[1], corners[1][1]) /\ ~FLess(corners[3][1], p[1])
    /\ ~FLess(p[2], corners[1][2]) /\ ~FLess(corners[3][2], p[2])

imagesAtPixel(s, p) ==
    {i \in s.renderedImages \cap s.tmanip : inside(p, imageGeometryByIndex(i))}

firstImageAtPixel(s, p) ==
    IF imagesAtPixel(s, p) = {} THEN NoNode
    ELSE CHOOSE i \in imagesAtPixel(s, p) : \A j \in imagesAtPixel(s, p) : i <= j

\* editNode(name)
editNode(s, name) ==
    IF \E i \in 1..Len(s.editNodes) : s.editNodes[i].tformNode = name
    THEN s.editNodes[CHOOSE i \in 1..Len(s.editNodes) :
                         /\ s.editNodes[i].tformNode = name
                         /\ \A j \in 1..(i - 1) : s.editNodes[j].tformNode # name]
    ELSE NoEditNode

\* activeImageIndex(): the first rendered image whose tmanip_state tag is
\* neither missing nor empty, -1 if there is none.
activeImageIndex(s) ==
    IF \E i \in s.renderedImages : s.tmanipState[i] # ""
    THEN CHOOSE i \in s.renderedImages :
             /\ s.tmanipState[i] # ""
             /\ \A j \in s.renderedImages : s.tmanipState[j] # "" => i <= j
    ELSE -1

\* setManipState(p, value): setStringTagProperty creates the tag when missing.
setManipState(s, p, value) ==
    IF p # NoEditNode /\ p.tformNode \in s.tformExists
    THEN [s EXCEPT !.tmanipState[p.tformNode] = value]
    ELSE s

\* computeGC(corners)
computeGC(corners) ==
    <<FDiv(FAdd(FAdd(FAdd(FAdd(Float(0), corners[1][1]), corners[2][1]),
                     corners[3][1]), corners[4][1]),
           Float(4)),
      FDiv(FAdd(FAdd(FAdd(FAdd(Float(0), corners[1][2]), corners[2][2]),
                     corners[3][2]), corners[4][2]),
           Float(4))>>

\* control(index, event), the test of one corner and the control of a corner.
cornerHit(p, c) ==
    /\ FLess(FAbs(FSub(p[1], c[1])), Float(25))
    /\ FLess(FAbs(FSub(p[2], c[2])), Float(25))

cornerControl(c, g) ==
    IF FLess(c[1], g[1])
    THEN IF FLess(g[2], c[2]) THEN TopLeftCorner ELSE BotLeftCorner
    ELSE IF FLess(g[2], c[2]) THEN TopRightCorner ELSE BotRightCorner

controlOf(p, corners, g) ==
    IF \E i \in 1..4 : cornerHit(p, corners[i])
    THEN LET c == corners[CHOOSE i \in 1..4 :
                              /\ cornerHit(p, corners[i])
                              /\ \A j \in 1..(i - 1) : ~cornerHit(p, corners[j])]
         IN  [ctrl |-> cornerControl(c, g), gc |-> g, corner |-> c]
    ELSE [ctrl |-> FreeTranslation, gc |-> g, corner |-> g]

controlAt(index, p) ==
    controlOf(p, imageGeometryByIndex(index), computeGC(imageGeometryByIndex(index)))

\* move(event): the image under the pointer becomes the hovered one.
moveControl(s, c) == [s EXCEPT !.control = c.ctrl, !.gc = c.gc, !.corner = c.corner]

moveHit(s, p, v) ==
    moveControl(setManipState([s EXCEPT !.currentEditNode = editNode(s, v)],
                              editNode(s, v), "hover"),
                controlAt(v, p))

moveSearch(s, p) ==
    IF firstImageAtPixel(s, p) = NoNode THEN s
    ELSE moveHit(s, p, firstImageAtPixel(s, p))

moveLast(s, last) ==
    IF last # s.currentEditNode /\ last # NoEditNode
    THEN setManipState(s, last, "")
    ELSE s

move(s, p) ==
    moveLast(moveSearch([s EXCEPT !.currentEditNode = NoEditNode,
                                  !.control = NoControl], p),
             s.currentEditNode)

\* push(event)
pushDown(s, p) ==
    IF activeImageIndex(s) = -1 THEN s
    ELSE [s EXCEPT !.downPoint = p, !.didDrag = FALSE, !.editing = TRUE]

push(s, p) ==
    IF s.currentEditNode # NoEditNode
    THEN pushDown(setManipState(s, s.currentEditNode, "editing"), p)
    ELSE s

\* mag(v), normalize(v), dot(a, b)
mag(v) == FSqrt(FAdd(FMul(v[1], v[1]), FMul(v[2], v[2])))

normalize(v) ==
    IF mag(v).m = 0 THEN Origin
    ELSE <<FDiv(v[1], mag(v)), FDiv(v[2], mag(v))>>

dot(a, b) == FAdd(FMul(a[1], b[1]), FMul(a[2], b[2]))

\* commands.setFloatProperty(node.transform.prop, value, True)
setFloatProperty(s, prop, node, value) ==
    [s EXCEPT ![prop][node] = value,
              !.propWrites = Append(@, [prop |-> prop, node |-> node,
                                        value |-> value])]

\* drag(event): ba, da and aspect of the corners, and the property-space
\* delta of a screen-space vector v (dx, dy of ip and sdx, sdy of sv).
dragBA(corners) == mag(vsub(corners[2], corners[1]))
dragDA(corners) == mag(vsub(corners[4], corners[1]))

dragAspect(ba, da) == IF da.m # 0 THEN FDiv(ba, da) ELSE Float(1)

dragDeltaX(v, ba, da, sc) ==
    IF ba.m # 0 THEN FMul(FMul(FDiv(v[1], ba), sc[1]), dragAspect(ba, da))
    ELSE Float(0)

dragDeltaY(v, da, sc) ==
    IF da.m # 0 THEN FMul(FDiv(v[2], da), sc[2]) ELSE Float(0)

dragDelta(v, corners, sc) ==
    <<dragDeltaX(v, dragBA(corners), dragDA(corners), sc),
      dragDeltaY(v, dragDA(corners), sc)>>

\* drag(event): diagDir, diagDist, downDist, diff, scl and sv.
dragDiagDir(s) == normalize(vsub(s.corner, s.gc))
dragDiagDist(s, pp) == dot(vsub(pp, s.gc), dragDiagDir(s))
dragDownDist(s) == dot(vsub(s.downPoint, s.gc), dragDiagDir(s))
dragDiff(s, pp) == FSub(dragDiagDist(s, pp), dragDownDist(s))

dragScl(s, pp) ==
    IF dragDownDist(s).m # 0
    THEN FDiv(FSub(dragDiagDist(s, pp), FDiv(dragDiff(s, pp), Float(2))),
              dragDownDist(s))
    ELSE Float(1)

dragSV(s, pp) ==
    <<FMul(dragDiff(s, pp), dragDiagDir(s)[1]),
      FMul(dragDiff(s, pp), dragDiagDir(s)[2])>>

FMax(x, y) == IF FLess(x, y) THEN y ELSE x

dragNewScale(s, pp, sc) == FMax(FMul(sc[1], dragScl(s, pp)), FDiv(Float(1), Float(100)))

\* drag(event): the write of a free translation.
dragTranslate(s, node, trans, d) ==
    setFloatProperty(s, "translate", node, <<FAdd(trans[1], d[1]), FAdd(trans[2], d[2])>>)

\* drag(event): the writes of a corner control.
dragScale(s, node, sc, newscale) ==
    setFloatProperty(s, "scale", node,
                     <<newscale,
                       IF sc[1].m # 0 THEN FDiv(FMul(sc[2], newscale), sc[1])
                       ELSE newscale>>)

dragCorner(s, node, trans, sc, sd, newscale) ==
    dragScale(setFloatProperty(s, "translate", node,
                               <<FAdd(trans[1], FDiv(sd[1], Float(2))),
                                 FAdd(trans[2], FDiv(sd[2], Float(2)))>>),
              node, sc, newscale)

dragWrite(s, pp, node, corners) ==
    IF s.control = FreeTranslation
    THEN dragTranslate(s, node, s.translate[node],
                       dragDelta(vsub(pp, s.downPoint), corners, s.scale[node]))
    ELSE dragCorner(s, node, s.translate[node], s.scale[node],
                    dragDelta(dragSV(s, pp), corners, s.scale[node]),
                    dragNewScale(s, pp, s.scale[node]))

drag(s, pp) ==
    IF s.currentEditNode = NoEditNode \/ activeImageIndex(s) = -1 THEN s
    ELSE [dragWrite(s, pp, s.currentEditNode.tformNode,
                    imageGeometryByIndex(activeImageIndex(s)))
             EXCEPT !.downPoint = pp, !.didDrag = TRUE]

\* release(event)
release(s) ==
    [(IF s.editing THEN setManipState(s, s.currentEditNode, "hover") ELSE s)
        EXCEPT !.didDrag = FALSE, !.editing = FALSE]

\* The manipulator after activate(): findEditingNodes paired every transform
\* node with its input and gave it an empty state tag.  The transform
\* properties hold the defaults or an earlier translation.
InitManip ==
    /\ editNodes = [n \in ManipNodes |-> EditNodePair(n, n)]
    /\ currentEditNode = NoEditNode
    /\ control = NoControl
    /\ gc = Origin
    /\ corner = Origin
    /\ downPoint = Origin
    /\ editing = FALSE
    /\ didDrag = FALSE
    /\ tmanipState = [n \in ManipNodes |-> ""]
    /\ \E t \in {0, 1} : translate = [n \in ManipNodes |-> Pt(t, 0)]
    /\ scale = [n \in ManipNodes |-> Pt(1, 1)]
    /\ renderedImages = ManipNodes
    /\ tformExists = ManipNodes
    /\ tmanip = ManipNodes
    /\ manipOp = [op |-> "init", p |-> Origin]
    /\ propWrites = <<>>
    /\ dragRun = NoRun
    /\ nManip = 0

\* ------------------------------------------------------------ the initial state
\* The session at construction: folder 1 ("A") holding source 3 ("X") and
\* stack 4 ("V"), empty folder 2 ("B"), V viewed with X as its input; no
\* sm_state property yet; _setupUI has built the tree and the inputs list.
InitGraph ==
    [nodeType |-> [n \in 0..MaxNodes |->
                      IF n \in {1, 2} THEN Folder
                      ELSE IF n = 3 THEN Source
                      ELSE IF n = 4 THEN Stack ELSE ""],
     inputs |-> [n \in 0..MaxNodes |->
                    IF n = 1 THEN <<3, 4>> ELSE IF n = 4 THEN <<3>> ELSE <<>>],
     uiName |-> [n \in 0..MaxNodes |->
                    IF n = 1 THEN "A" ELSE IF n = 2 THEN "B"
                    ELSE IF n = 3 THEN "X" ELSE IF n = 4 THEN "V" ELSE ""],
     viewNode |-> 4,
     sortKeyParent |-> [n \in 0..MaxNodes |-> NoProp],
     sortKey |-> [n \in 0..MaxNodes |-> NoProp],
     expandState |-> [n \in 0..MaxNodes |-> NoProp],
     expandedSubState |-> [n \in 0..MaxNodes |-> NoProp],
     componentHash |-> [n \in 0..MaxNodes |-> NoProp],
     componentOfNode |-> [n \in 0..MaxNodes |-> NoProp],
     componentFolderOfNode |-> [n \in 0..MaxNodes |-> NoProp],
     imageComponent |-> [n \in 0..MaxNodes |-> NoProp],
     disableUpdates |-> FALSE, inputOrderLock |-> FALSE,
     lazySetInputsTimer |-> FALSE, lazyUpdateTimer |-> FALSE,
     viewModel |-> [p \in 0..MaxNodes |-> <<>>], inputsModel |-> <<>>,
     uiCreated |-> TRUE, progressiveLoadingInProgress |-> FALSE,
     treeSelection |-> <<>>,
     editors |-> <<>>,
     sortTimer |-> FALSE, sortFolders |-> <<>>,
     dropAction |-> "IgnoreAction", draggedNodePaths |-> <<>>,
     lastHandler |-> "init", calls |-> <<>>, viewCalls |-> <<>>,
     lastOp |-> Op("init", 0, 0, 0),
     raised |-> "", nOps |-> 0,
     returned |-> <<>>]

Init ==
    /\ nodeType = InitGraph.nodeType
    /\ inputs = InitGraph.inputs
    /\ uiName = InitGraph.uiName
    /\ viewNode = InitGraph.viewNode
    /\ sortKeyParent = InitGraph.sortKeyParent
    /\ sortKey = InitGraph.sortKey
    /\ expandState = InitGraph.expandState
    /\ expandedSubState = InitGraph.expandedSubState
    /\ componentHash = InitGraph.componentHash
    /\ componentOfNode = InitGraph.componentOfNode
    /\ componentFolderOfNode = InitGraph.componentFolderOfNode
    /\ imageComponent = InitGraph.imageComponent
    /\ disableUpdates = FALSE
    /\ inputOrderLock = FALSE
    /\ lazySetInputsTimer = FALSE
    /\ lazyUpdateTimer = FALSE
    /\ viewModel = updateTree(InitGraph).viewModel
    /\ inputsModel = updateTree(InitGraph).inputsModel
    /\ uiCreated = TRUE
    /\ progressiveLoadingInProgress = FALSE
    /\ treeSelection = updateTree(InitGraph).treeSelection
    /\ editors = <<>>
    /\ sortTimer = FALSE
    /\ sortFolders = <<>>
    /\ dropAction = "IgnoreAction"
    /\ draggedNodePaths = <<>>
    /\ lastHandler = "init"
    /\ calls = <<>>
    /\ viewCalls = <<>>
    /\ lastOp = Op("init", 0, 0, 0)
    /\ raised = ""
    /\ nOps = 0
    /\ returned = <<>>
    /\ InitManip

\* ------------------------------------------------------------------ the inputs
\* The rows of the tree, as paths (node, parent); parent 0 is a category.
TreeRows == {path \in Nodes \X (0..MaxNodes) : contains(viewModel[path[2]], path[1])}

\* The selections of the tree: up to MaxSel distinct rows, in selection order.
Selections ==
    UNION {{sel \in [1..k -> TreeRows] :
                \A i \in 1..k : \A j \in 1..k : i # j => sel[i] # sel[j]} :
           k \in 0..MaxSel}

\* The items of the tree: the rows and the sub-component items under the rows
\* of the sources.
TreeItems ==
    {Row(r[1]) : r \in TreeRows}
    \cup UNION {addSourceSubComponents(Cur, r[1]) :
                    r \in {q \in TreeRows : nodeType[q[1]] = Source}}

\* The rows of the tree under the row of node, at any depth.
RECURSIVE TreeUnder(_, _)
TreeUnder(from, k) ==
    IF k = 0 THEN from
    ELSE TreeUnder(from \cup {n \in Nodes : \E p \in from : contains(viewModel[p], n)},
                   k - 1)

\* The sets of nodes the Facade's pre-check may refuse during one handler.
RejSets(touched) == SUBSET touched

\* A handler ran within the node names of the model.
Fits(s) == s.nodeType[NoNode] = ""

\* ------------------------------------------------------------------ the actions
\* NodeTreeView.dragEnterEvent of a drag that starts in the tree: the selected
\* rows become the dragged paths.
DragEnter ==
    /\ nOps < MaxOps
    /\ \E paths \in Selections \ {<<>>} :
        Apply([BeginUser(Cur, "dragEnterEvent", 0, 0, 0)
                  EXCEPT !.draggedNodePaths = paths])

\* NodeTreeView.dropEvent.  Qt offers the rows of folders as drop targets, and
\* the FOLDERS category when only folders are dragged; a move cannot drop a
\* row on itself or under itself.
Drop ==
    /\ nOps < MaxOps
    /\ draggedNodePaths # <<>>
    /\ \A i \in 1..Len(draggedNodePaths) : draggedNodePaths[i] \in TreeRows
    /\ \E action \in {"CopyAction", "MoveAction"} :
       \E target \in 0..MaxNodes :
       \E rej \in RejSets({target} \cup {draggedNodePaths[i][2] :
                                           i \in 1..Len(draggedNodePaths)}) :
          LET dragged == {draggedNodePaths[i][1] : i \in 1..Len(draggedNodePaths)}
          IN  /\ IF target = NoNode
                 THEN \A n \in dragged : nodeType[n] = Folder
                 ELSE /\ nodeType[target] = Folder
                      /\ \E p \in 0..MaxNodes : contains(viewModel[p], target)
              /\ action = "MoveAction" => target \notin TreeUnder(dragged, MaxNodes)
              /\ Len(viewModel[target]) + Len(draggedNodePaths) <= MaxNodes
              /\ Apply(dropEvent(BeginUser(Cur, "dropEvent", target, action, rej),
                                 target, action, rej))

\* The user edits the text of a row of the tree: itemChanged with no drop.
RenameTexts == {"R"}
RenameItem ==
    \E r \in TreeRows : \E text \in RenameTexts :
        /\ nOps < MaxOps
        /\ nodeExists(Cur, r[1])
        /\ Apply(viewItemChanged(BeginUser(Cur, "rename", r[1], text, 0), r[1],
                                 NotASubComponent, text, r[2], r[2], {}))

\* InputsView.dropEvent of an item dragged from the tree that stays a
\* MoveAction: Qt takes the dragged row out of the tree model after the drop.
inputsDropEventMove(s, item) ==
    inputRowsInsertedSlot(
        [s EXCEPT !.inputsModel = Append(@, [item EXCEPT !.chain = <<>>]),
                  !.viewModel = [p \in 0..MaxNodes |->
                                    IF item.subType = NotASubComponent
                                    THEN removeFirst(@[p], item.node) ELSE @[p]]])

\* InputsView.dropEvent of an item dragged from the tree: the drop is made a
\* CopyAction, so a copy of the item is appended to the list (a list item has
\* no parent item) and the tree keeps its row; rowsInserted.
inputsDropEvent(s, item) ==
    inputRowsInsertedSlot(
        [s EXCEPT !.inputsModel = Append(@, [item EXCEPT !.chain = <<>>])])

InputsDropFromTree ==
    /\ nOps < MaxOps
    /\ nodeType[viewNode] # Source
    /\ Len(inputsModel) < MaxRows
    /\ \E item \in TreeItems :
          Apply(inputsDropEvent(BeginUser(Cur, "inputsDrop", item.node, item.subType, 0),
                                item))

\* A row of the list dragged to another place of the list: the row is inserted
\* there (rowsInserted) and the original removed (rowsRemoved).
InputsRowMoved ==
    /\ nOps < MaxOps
    /\ nodeType[viewNode] # Source
    /\ \E i \in 1..Len(inputsModel) : \E j \in 1..Len(inputsModel) :
          /\ i # j
          /\ LET without == SubSeq(inputsModel, 1, i - 1)
                            \o SubSeq(inputsModel, i + 1, Len(inputsModel))
                 moved == SubSeq(without, 1, j - 1) \o <<inputsModel[i]>>
                          \o SubSeq(without, j, Len(without))
             IN  Apply(inputRowsRemovedSlot(inputRowsInsertedSlot(
                           [BeginUser(Cur, "inputsMove", i, j, 0)
                               EXCEPT !.inputsModel = moved])))

\* A row of the list dragged out of the list: rowsRemoved.
InputsRowRemoved ==
    /\ nOps < MaxOps
    /\ nodeType[viewNode] # Source
    /\ \E i \in 1..Len(inputsModel) :
          Apply(inputRowsRemovedSlot(
                    [BeginUser(Cur, "inputsRemove", i, 0, 0)
                        EXCEPT !.inputsModel = SubSeq(@, 1, i - 1)
                                               \o SubSeq(@, i + 1, Len(@))]))

\* The timeout of _lazySetInputsTimer: rebuildInputsFromList.
LazySetInputsTimeout ==
    /\ lazySetInputsTimer
    /\ \E rej \in RejSets({viewNode}) : \E fails \in BOOLEAN :
          LET s == rebuildInputsFromList(
                       [Begin(Cur, "rebuildInputsFromList", rej, fails, 0)
                           EXCEPT !.lazySetInputsTimer = FALSE], rej, fails)
          IN  Fits(s) /\ Apply(s)

\* The timeout of _lazyUpdateTimer: updateTree.
LazyUpdateTimeout ==
    /\ lazyUpdateTimer
    /\ Apply(updateTree([Begin(Cur, "updateTree", 0, 0, 0)
                            EXCEPT !.lazyUpdateTimer = FALSE]))

\* The timeout of NodeTreeView._sortTimer: _doSortFolders.
SortTimeout ==
    /\ sortTimer
    /\ Apply(doSortFolders([Begin(Cur, "doSortFolders", 0, 0, 0)
                               EXCEPT !.sortTimer = FALSE], 1))

\* The items of a selection of rows and of sub-component items of the tree.
ItemSelections ==
    UNION {{sel \in [1..k -> TreeItems] :
                \A i \in 1..k : \A j \in 1..k : i # j => sel[i] # sel[j]} :
           k \in 0..MaxSel}

\* The "New Viewable" menu: addThingSlot -> addNodeOfType.
AddNodeOfType ==
    /\ nOps < MaxOps
    /\ \E items \in ItemSelections : \E fails \in BOOLEAN :
          \E rej \in RejSets({FreshNode(Cur)}) :
             LET s == addNodeOfType(BeginUser(Cur, "addNodeOfType", fails, 0, 0),
                                    Stack, items, rej, fails)
             IN  Fits(s) /\ Apply(s)

\* The "Folder" menu: newFolderSlot(1), (2) and (3).
NewFolderSlot ==
    /\ nOps < MaxOps
    /\ \E which \in {1, 2, 3} : \E paths \in Selections :
          \E rej \in RejSets({FreshNode(Cur)}
                             \cup {paths[i][2] : i \in 1..Len(paths)}) :
             LET s == newFolderSlot(BeginUser(Cur, "newFolderSlot", which, paths, rej),
                                    which, paths, rej)
             IN  Fits(s) /\ Apply(s)

\* A double click on an item of the tree or on a row of the inputs list:
\* viewByIndex.
ViewByIndex ==
    /\ nOps < MaxOps
    /\ \E item \in TreeItems \cup {inputsModel[i] : i \in 1..Len(inputsModel)} :
        /\ nodeExists(Cur, item.node)
        /\ Apply(viewByIndex(BeginUser(Cur, "viewByIndex", item.node, item.subType,
                                       subComponentPropValue(item)),
                             item))

\* The events of the Graph Facade that other parts of the application cause:
\* source-modified and the like (updateTreeEvent), graph-state-change
\* (propertyChanged) and graph-node-inputs-changed (nodeInputsChanged).
UpdateTreeEvent ==
    /\ nOps < MaxOps
    /\ Apply(updateTree(BeginUser(Cur, "updateTreeEvent", 0, 0, 0)))

PropertyChangedEvent ==
    /\ nOps < MaxOps
    /\ \E prop \in {<<"ui", "name">>, <<"sm_state", "sortKey">>,
                 <<"request", "imageComponent">>} :
        Apply(propertyChanged(BeginUser(Cur, "propertyChanged", prop, 0, 0),
                              prop[1], prop[2]))

NodeInputsChangedEvent ==
    \E node \in Nodes :
        /\ nOps < MaxOps
        /\ nodeExists(Cur, node)
        /\ Apply(nodeInputsChanged(BeginUser(Cur, "nodeInputsChanged", node, 0, 0),
                                   node))

Next ==
    \/ DragEnter
    \/ Drop
    \/ RenameItem
    \/ InputsDropFromTree
    \/ InputsRowMoved
    \/ InputsRowRemoved
    \/ LazySetInputsTimeout
    \/ LazyUpdateTimeout
    \/ SortTimeout
    \/ AddNodeOfType
    \/ NewFolderSlot
    \/ ViewByIndex
    \/ UpdateTreeEvent
    \/ PropertyChangedEvent
    \/ NodeInputsChangedEvent

Spec == Init /\ [][Next]_vars

\* ------------------------------------------------- the sort-key specification
\* The sort/expand state store on its own: setSortKeyInParent called with any
\* node, parent and 32-bit key, and a session whose key array lost its last
\* entry (a session file written elsewhere), which leaves the two arrays of
\* the node out of step.
SortKeys == {INT_MIN, 0, INT_MAX}

SetSortKey ==
    /\ nOps < MaxSortCalls
    /\ \E node \in 1..MaxSortNodes : \E parent \in 0..MaxSortNodes :
          \E value \in SortKeys :
             Apply(setSortKeyInParent(
                       BeginUser(Cur, "setSortKeyInParent", node, parent, value),
                       node, parent, value))

SortKeysOutOfStep ==
    /\ nOps < MaxSortCalls
    /\ \E node \in 1..MaxSortNodes :
          /\ sortKey[node].ex
          /\ Len(sortKey[node].v) > 0
          /\ Apply([BeginUser(Cur, "outOfStep", node, 0, 0)
                       EXCEPT !.sortKey[node].v = SubSeq(@, 1, Len(@) - 1)])

NextSortKey == SetSortKey \/ SortKeysOutOfStep

SpecSortKey == Init /\ [][NextSortKey]_vars

\* The sort keys of the next state, for sortKeyInParent.
NextKeys == [sortKeyParent |-> sortKeyParent', sortKey |-> sortKey']

\* The two arrays of the node are both there with one length.
InStep(s, node) ==
    /\ s.sortKeyParent[node].ex
    /\ s.sortKey[node].ex
    /\ Len(s.sortKeyParent[node].v) = Len(s.sortKey[node].v)

\* C9: reading back the sort key just written with setSortKeyInParent(n, p, k)
\* gives k, for every 32-bit k the model writes (the least and the greatest
\* included) and whatever was stored before; and a pair (n, p) that no call
\* has written reads as the undefined key 2147483547, at the start and after
\* every step that is not a write of (n, p).
C9_RoundTrip ==
    /\ \A n \in Nodes : \A p \in 0..MaxNodes :
          sortKeyInParent(Cur, n, p) = undefinedKey
    /\ [](lastOp.op = "setSortKeyInParent"
             => sortKeyInParent(Cur, lastOp.a, lastOp.b) = lastOp.c)
    /\ [][\A n \in Nodes : \A p \in 0..MaxNodes :
             (/\ sortKeyInParent(Cur, n, p) = undefinedKey
              /\ ~(/\ lastOp'.op = "setSortKeyInParent"
                   /\ lastOp'.a = n /\ lastOp'.b = p))
             => sortKeyInParent(NextKeys, n, p) = undefinedKey]_vars

\* A key written over keys stored before, for another parent and for the same.
C9_Witness ==
    /\ lastOp.op = "setSortKeyInParent"
    /\ lastOp.c = INT_MAX
    /\ Len(sortKey[lastOp.a].v) = 2
    /\ sortKeyInParent(Cur, lastOp.a, lastOp.b) = INT_MAX
    /\ \E p \in 0..MaxSortNodes :
          p # lastOp.b /\ sortKeyInParent(Cur, lastOp.a, p) = INT_MIN

\* C10: setSortKeyInParent(n, p, k) on a node whose arrays are in step changes
\* the key of n under p only: the key of n under every other parent and every
\* key of every other node read as before.
C10_Frame ==
    [][(lastOp'.op = "setSortKeyInParent" /\ InStep(Cur, lastOp'.a))
          => \A m \in Nodes : \A q \in 0..MaxNodes :
                 (m # lastOp'.a \/ q # lastOp'.b)
                 => sortKeyInParent(NextKeys, m, q) = sortKeyInParent(Cur, m, q)]_vars

\* A write for one parent of a node that holds a key for another parent.
C10_Witness ==
    /\ lastOp.op = "setSortKeyInParent"
    /\ InStep(Cur, lastOp.a)
    /\ \E q \in 0..MaxSortNodes :
          /\ q # lastOp.b
          /\ sortKeyInParent(Cur, lastOp.a, q) # undefinedKey
          /\ sortKeyInParent(Cur, lastOp.a, lastOp.b) # sortKeyInParent(Cur, lastOp.a, q)

\* --------------------------------------------------------------- the claims
\* How often the value is in the array, and an array with no value twice.
RECURSIVE Count(_, _)
Count(array, value) ==
    IF array = <<>> THEN 0
    ELSE (IF Head(array) = value THEN 1 ELSE 0) + Count(Tail(array), value)

NoDuplicates(array) ==
    \A i \in 1..Len(array) : \A j \in 1..Len(array) : i # j => array[i] # array[j]

\* The graph and the resolver's properties of the next state.
NextGraph ==
    [nodeType |-> nodeType', inputs |-> inputs', componentHash |-> componentHash',
     componentOfNode |-> componentOfNode',
     componentFolderOfNode |-> componentFolderOfNode']

\* The step is the drop, as a MoveAction, of the one dragged row of node x
\* under folder a on the row of another folder b.
MoveDropStep(x, a, b) ==
    /\ lastOp'.op = "dropEvent"
    /\ lastOp'.b = "MoveAction"
    /\ lastOp'.a = b
    /\ draggedNodePaths = <<(<<x, a>>)>>
    /\ a # b /\ a # NoNode /\ b # NoNode
    /\ contains(inputs[a], x)

\* C1: after the move drop of node x, an input of a, on another existing node
\* b, x is no input of a, is an input of b exactly once, and neither list
\* holds a node twice.
C1_MoveDrop ==
    [][\A x \in Nodes : \A a \in Nodes : \A b \in Nodes :
          MoveDropStep(x, a, b)
          => /\ ~contains(inputs'[a], x)
             /\ Count(inputs'[b], x) = 1
             /\ NoDuplicates(inputs'[a])
             /\ NoDuplicates(inputs'[b])]_vars

\* In the log of a handler's Facade calls, call i writes an input list that
\* the call before it did not pre-check.
Unchecked(log, i) ==
    /\ log[i].fn = "setNodeInputs"
    /\ ~(/\ i > 1
         /\ log[i - 1].fn = "testNodeInputs"
         /\ log[i - 1].node = log[i].node
         /\ log[i - 1].ins = log[i].ins)

\* C2: every write of an input list by a handler comes right after the
\* pre-check of that very node and list, in the same handler.
C2_PreChecked == \A i \in 1..Len(calls) : ~Unchecked(calls, i)

\* In the log of a handler's Facade calls, pre-check i was refused: no write of
\* the list it checked follows it.
Refused(log, i) ==
    /\ log[i].fn = "testNodeInputs"
    /\ ~(/\ i < Len(log)
         /\ log[i + 1].fn = "setNodeInputs"
         /\ log[i + 1].node = log[i].node
         /\ log[i + 1].ins = log[i].ins)

\* C3: a handler in which the pre-check refused a list leaves the input list
\* of every node as it was; a move whose add to the new parent was refused
\* leaves the node with its former parent.
C3_RefusedChangesNothing ==
    [][(\E i \in 1..Len(calls') : Refused(calls', i))
          => \A n \in Nodes : nodeExists(Cur, n) => inputs'[n] = inputs[n]]_vars

\* The pre-checks of the view node's input list in a handler's Facade calls.
ViewNodeChecks(log, vnode) ==
    {i \in 1..Len(log) : log[i].fn = "testNodeInputs" /\ log[i].node = vnode}

\* The nodes list ins stands for the rows of the inputs list, row by row: the
\* node of a plain row, a source materialized for the owner and the hash of a
\* sub-component row.
StandsFor(ins, rows, g) ==
    /\ Len(ins) = Len(rows)
    /\ \A i \in 1..Len(rows) :
          IF rows[i].subType = NotASubComponent
          THEN ins[i] = rows[i].node
          ELSE /\ g.componentHash[ins[i]].v = <<rows[i].hash>>
               /\ g.componentOfNode[ins[i]].v = <<rows[i].node>>

\* C4: the timeout of the inputs timer, however many row signals started the
\* timer, runs rebuildInputsFromList once: setInputs is called once for the
\* view node, with the rows of the list as they are when the timer fires (all
\* of them when no materialization raises), and the inputs-changed event it
\* causes leaves the timer stopped.
C4_OneFlush ==
    [][(lastOp'.op = "rebuildInputsFromList" /\ ~inputOrderLock /\ viewNode # NoNode)
          => /\ Cardinality(ViewNodeChecks(calls', viewNode)) = 1
             /\ \A i \in ViewNodeChecks(calls', viewNode) :
                   ~lastOp'.b => StandsFor(calls'[i].ins, inputsModel, NextGraph)
             /\ ~lazySetInputsTimer']_vars

\* One timeout after two sub-component rows were dropped on the list of V: the
\* folder was written twice and the view node's list checked and written once.
C4_Witness ==
    /\ lastOp.op = "rebuildInputsFromList"
    /\ viewNode = 4
    /\ Len(calls) = 4
    /\ calls[3] = [fn |-> "testNodeInputs", node |-> 4, ins |-> <<3, 5, 7>>]
    /\ calls[4] = [fn |-> "setNodeInputs", node |-> 4, ins |-> <<3, 5, 7>>]
    /\ inputs[4] = <<3, 5, 7>>
    /\ ~lazySetInputsTimer

\* C5: with disableUpdates set, updateTreeEvent, propertyChanged and
\* nodeInputsChanged change neither model and start no timer; and the rename
\* of a node through its tree item starts no tree rebuild.
C5_SuppressedHandlers ==
    [][/\ (disableUpdates
           /\ lastOp'.op \in {"updateTreeEvent", "propertyChanged", "nodeInputsChanged"})
          => UNCHANGED <<viewModel, inputsModel, lazyUpdateTimer,
                         lazySetInputsTimer, sortTimer>>
       /\ lastOp'.op = "rename"
          => UNCHANGED <<viewModel, lazyUpdateTimer>>]_vars

\* C6: between handlers disableUpdates and inputOrderLock are both false.
C6_FlagsRestored == ~disableUpdates /\ ~inputOrderLock

\* The sub-component hashes of the items of the model's sources.
Hashes ==
    {hashedSubComponent(MediaFile, None, None),
     hashedSubComponent(MediaFile, None, Some("L")), ""}

\* The sources materialized for the sub-component hash_val of the owner, and
\* the components folders of the owner.
Materialized(g, hash_val, owner) ==
    {n \in Nodes : /\ g.nodeType[n] = Source
                   /\ g.componentHash[n] = Prop(<<hash_val>>)
                   /\ g.componentOfNode[n] = Prop(<<owner>>)}

ComponentFolders(g, owner) ==
    {n \in Nodes : /\ g.nodeType[n] = Folder
                   /\ g.componentFolderOfNode[n] = Prop(<<owner>>)}

\* C7: no two sources are materialized for one (hash, owner) pair, and no
\* owner has two components folders.
C7_OneNodePerSubComponent ==
    /\ \A hash_val \in Hashes : \A owner \in Nodes :
          Cardinality(Materialized(Cur, hash_val, owner)) <= 1
    /\ \A owner \in Nodes : Cardinality(ComponentFolders(Cur, owner)) <= 1

\* A second request for a materialized sub-component: the timeout found the
\* source (it wrote no folder) and the view node holds it twice, and the tree
\* has no row of it that could have been dropped on the list.
C7_Witness ==
    /\ lastOp.op = "rebuildInputsFromList"
    /\ Len(calls) = 2
    /\ \E n \in Nodes :
          /\ componentHash[n].ex
          /\ ~InTree(Cur, n)
          /\ Count(inputs[viewNode], n) = 2

\* C8: componentAndFolderNodeFromHash(h, N) finds no component while no source
\* is materialized for (h, N); and right after a handler materialized one, it
\* finds that source, which is an input of the components folder of N that it
\* finds.
C8_Resolver ==
    /\ [](\A hash_val \in Hashes : \A owner \in Nodes :
             Materialized(Cur, hash_val, owner) = {}
             => componentAndFolderNodeFromHash(Cur, hash_val, owner, 1, NoNode,
                                               NoNode).cnode = NoNode)
    /\ [][\A hash_val \in Hashes : \A owner \in Nodes : \A n \in Nodes :
             (n \in Materialized(NextGraph, hash_val, owner)
              /\ n \notin Materialized(Cur, hash_val, owner))
             => LET found == componentAndFolderNodeFromHash(
                                 NextGraph, hash_val, owner, 1, NoNode, NoNode)
                IN  /\ found.cnode = n
                    /\ found.folder \in ComponentFolders(NextGraph, owner)
                    /\ contains(inputs'[found.folder], n)]_vars

\* A handler has just materialized a source: it wrote the components folder,
\* and the query finds the source, an input of the folder.
C8_Witness ==
    \E n \in Nodes : \E hash_val \in Hashes : \E owner \in Nodes :
        LET found == componentAndFolderNodeFromHash(Cur, hash_val, owner, 1,
                                                    NoNode, NoNode)
        IN  /\ n \in Materialized(Cur, hash_val, owner)
            /\ found.cnode = n
            /\ contains(inputs[found.folder], n)
            /\ \E i \in 1..Len(calls) :
                  /\ calls[i].fn = "setNodeInputs"
                  /\ calls[i].node = found.folder
                  /\ calls[i].ins # <<>>
                  /\ calls[i].ins[Len(calls[i].ins)] = n

\* ------------------------------------------ the expansion-state specification
\* The expand state store on its own: setExpandedInParent and
\* setSubComponentExpanded called with any node, any key and either value, as
\* the tree's expanded and collapsed signals call them.
MaxExpandNodes == 2
MaxExpandCalls == 3

\* The sub-component items of the tree, under the row of source 3.
ExpandItems == addSourceSubComponents(Cur, 3)

SetExpanded ==
    /\ nOps < MaxExpandCalls
    /\ \E node \in 1..MaxExpandNodes : \E parent \in 0..MaxExpandNodes :
          \E expanded \in BOOLEAN :
             Apply(setExpandedInParent(
                       BeginUser(Cur, "setExpandedInParent", node, parent, expanded),
                       node, parent, expanded))

SetSubExpanded ==
    /\ nOps < MaxExpandCalls
    /\ \E item \in ExpandItems : \E expanded \in BOOLEAN :
          Apply(setSubComponentExpanded(
                    BeginUser(Cur, "setSubComponentExpanded", item.node, item,
                              expanded),
                    item.node, item, expanded))

NextExpand == SetExpanded \/ SetSubExpanded

SpecExpand == Init /\ [][NextExpand]_vars

\* The expand state of the next state.
NextExpandState == [expandState |-> expandState', expandedSubState |-> expandedSubState']

\* The last call and this call set the same key, the last one to expanded.
ExpandedThenSet(op) ==
    /\ lastOp.op = op /\ lastOp'.op = op
    /\ lastOp'.a = lastOp.a /\ lastOp'.b = lastOp.b
    /\ lastOp.c = TRUE

\* C11: setting a key expanded again changes nothing, and setting it not
\* expanded after that leaves it reported as not expanded (so: true, true,
\* false reports false); and setting a key not expanded on a node that has no
\* expansion state stored changes nothing and leaves the key reported as not
\* expanded.  The same for the sub-component keys.
C11_ExpansionToggling ==
    [][/\ (ExpandedThenSet("setExpandedInParent") /\ lastOp'.c = TRUE)
             => expandState' = expandState
       /\ (ExpandedThenSet("setExpandedInParent") /\ lastOp'.c = FALSE)
             => ~isExpandedInParent(NextExpandState, lastOp'.a, lastOp'.b)
       /\ (lastOp'.op = "setExpandedInParent" /\ lastOp'.c = FALSE
             /\ ~expandState[lastOp'.a].ex)
             => /\ expandState' = expandState
                /\ ~isExpandedInParent(NextExpandState, lastOp'.a, lastOp'.b)
       /\ (ExpandedThenSet("setSubComponentExpanded") /\ lastOp'.c = TRUE)
             => expandedSubState' = expandedSubState
       /\ (ExpandedThenSet("setSubComponentExpanded") /\ lastOp'.c = FALSE)
             => ~isSubComponentExpanded(NextExpandState, lastOp'.a, lastOp'.b)
       /\ (lastOp'.op = "setSubComponentExpanded" /\ lastOp'.c = FALSE
             /\ ~expandedSubState[lastOp'.a].ex)
             => /\ expandedSubState' = expandedSubState
                /\ ~isSubComponentExpanded(NextExpandState, lastOp'.a, lastOp'.b)]_vars

\* ------------------------------------------------- the hash specification
\* hashedSubComponent called with any media, view and layer: a view or layer
\* is None, the empty string, a name, or the string that stands for the empty
\* one.  The last two calls are kept, arguments and returned string.
Medias == {"a.mov", "b.mov"}
ViewsOrLayers == {None, Some(""), Some("v"), Some("@.")}

\* The last call and the one before it.
LastTwo(seq, x) == IF seq = <<>> THEN <<x>> ELSE <<seq[Len(seq)], x>>

HashCall ==
    \E media \in Medias : \E view \in ViewsOrLayers : \E layer \in ViewsOrLayers :
       Apply([Begin(Cur, "hashedSubComponent", 0, 0, 0)
                 EXCEPT !.returned =
                     LastTwo(@, [media |-> media, view |-> view, layer |-> layer,
                                 value |-> hashedSubComponent(media, view, layer)])])

NextHash == HashCall

SpecHash == Init /\ [][NextHash]_vars

\* One is None and the other the empty string.
NoneVersusEmpty(x, y) ==
    (x = None /\ y = Some("")) \/ (x = Some("") /\ y = None)

\* C12: two calls of hashedSubComponent with equal media, view and layer
\* return the same string, and two calls with one media whose views, or whose
\* layers, are None in one and the empty string in the other return different
\* strings.
C12_HashDistinguishesNone ==
    \A i \in 1..Len(returned) : \A j \in 1..Len(returned) :
       LET x == returned[i]
           y == returned[j]
       IN  /\ (x.media = y.media /\ x.view = y.view /\ x.layer = y.layer)
                 => x.value = y.value
           /\ (x.media = y.media
               /\ (NoneVersusEmpty(x.view, y.view) \/ NoneVersusEmpty(x.layer, y.layer)))
                 => x.value # y.value

\* hash("a.mov", None, None) and hash("a.mov", "", None) were returned.
C12_Witness ==
    /\ Len(returned) = 2
    /\ returned[1] = [media |-> "a.mov", view |-> None, layer |-> None,
                      value |-> "a.mov!~!~"]
    /\ returned[2] = [media |-> "a.mov", view |-> Some(""), layer |-> None,
                      value |-> "a.mov!~!~@."]

\* ------------------------------------------------------------ tree rebuilds
\* mapModel(model, F)[0] for F = "the item of node": the first item of the
\* node in mapModel's order (the rows under an item before the item), as the
\* parent and the index of its row; <<>> when the tree has no item of it.
RECURSIVE firstItemOf(_, _, _, _, _)
firstItemOr(below, s, parent, i, node, k) ==
    IF below # <<>> THEN below
    ELSE IF s.viewModel[parent][i] = node THEN <<parent, i>>
    ELSE firstItemOf(s, parent, i + 1, node, k)

firstItemOf(s, parent, i, node, k) ==
    IF i > Len(s.viewModel[parent]) THEN <<>>
    ELSE firstItemOr(IF k = 0 THEN <<>>
                     ELSE firstItemOf(s, s.viewModel[parent][i], 1, node, k - 1),
                     s, parent, i, node, k)

\* The row selectViewableNode selects.
selectedRow(s) ==
    IF s.viewNode = NoNode THEN <<>>
    ELSE firstItemOf(s, NoNode, 1, s.viewNode, MaxNodes)

\* The tree of a state: the rows under the categories and under every folder,
\* in order, and the selected row.
TreeOf(s) == [rows |-> s.viewModel, selected |-> selectedRow(s)]

\* C13: in every state the program reaches, updateTree run a second time
\* right after updateTree leaves the tree as the first run built it: the same
\* rows under every category and folder in the same order, and the same
\* selected row.
C13_RebuildIdempotent ==
    TreeOf(updateTree(updateTree(Cur))) = TreeOf(updateTree(Cur))

\* The timer rebuilt the tree after X became an input of folder B, with the
\* row of the view node selected.
C13_Witness ==
    /\ lastOp.op = "updateTree"
    /\ contains(viewModel[2], 3)
    /\ ~disableUpdates
    /\ selectedRow(Cur) # <<>>
    /\ TreeOf(updateTree(Cur)) = TreeOf(Cur)

\* ------------------------------------------------- drops on the inputs list
\* The flush writes the input list of a node other than the view node.
OtherListChanged(n) == n # viewNode /\ inputs'[n] # inputs[n]

\* The list is the list as it was with nodes added at its end.
Extends(new, old) == Len(new) >= Len(old) /\ SubSeq(new, 1, Len(old)) = old

\* C14 as stated: the drop of a tree item on the inputs list changes no input
\* list and leaves the tree model and the tree's drop action as they were, and
\* the flush of the list that follows it changes no input list but the view
\* node's.
C14_InputsDropOnlyViewNode ==
    [][/\ lastOp'.op = "inputsDrop"
             => inputs' = inputs /\ viewModel' = viewModel /\ dropAction' = dropAction
       /\ lastOp'.op = "rebuildInputsFromList"
             => \A n \in Nodes : ~OtherListChanged(n)]_vars

\* C14, amended: the drop of a tree item on the inputs list changes no input
\* list and leaves the tree model and the tree's drop action as they were; the
\* flush that follows it removes no node from any input list but the view
\* node's, and the only other lists it changes are those of components
\* folders, which get the newly materialized sub-component sources at their
\* end.
C14_InputsDropFrame ==
    [][/\ lastOp'.op = "inputsDrop"
             => inputs' = inputs /\ viewModel' = viewModel /\ dropAction' = dropAction
       /\ lastOp'.op = "rebuildInputsFromList"
             => \A n \in Nodes :
                   OtherListChanged(n)
                   => /\ componentFolderOfNode'[n].ex
                      /\ Extends(inputs'[n], inputs[n])
                      /\ \A i \in (Len(inputs[n]) + 1)..Len(inputs'[n]) :
                            /\ componentHash'[inputs'[n][i]].ex
                            /\ ~nodeExists(Cur, inputs'[n][i])]_vars

\* The media sub-component of source X, an input of folder A, was dropped from
\* the tree on the inputs list of stack V and the list was flushed: V has X and
\* the materialized source 5, the new components folder 6 has 5, A still has
\* X, and the tree still shows X under A.
C14_Witness ==
    /\ lastOp.op = "rebuildInputsFromList"
    /\ viewNode = 4
    /\ inputs[4] = <<3, 5>>
    /\ componentFolderOfNode[6].ex
    /\ inputs[6] = <<5>>
    /\ inputs[1] = <<3, 4>>
    /\ contains(viewModel[1], 3)
    /\ dropAction = "IgnoreAction"

\* -------------------------------------------- the inputs-list specification
\* The inputs list of a view node with three inputs: sequences 1, 2 and 3
\* named "A", "A" or "B" or "C", and "B", in any order, as inputs of node 4, a stack
\* or a folder, which is viewed.  The gestures on the list: a drop from the
\* tree, the removal of a row, the up and down buttons and the two sorts, with
\* the two timers.
Sequence == "RVSequenceGroup"

InputOrders ==
    {order \in [1..3 -> 1..3] : \A i \in 1..3 : \A j \in 1..3 : i # j => order[i] # order[j]}

InputsGraph(vtype, name2, order) ==
    [InitGraph EXCEPT
        !.nodeType = [n \in 0..MaxNodes |->
                         IF n \in 1..3 THEN Sequence ELSE IF n = 4 THEN vtype ELSE ""],
        !.inputs = [n \in 0..MaxNodes |-> IF n = 4 THEN order ELSE <<>>],
        !.uiName = [n \in 0..MaxNodes |->
                       IF n = 1 THEN "A" ELSE IF n = 2 THEN name2
                       ELSE IF n = 3 THEN "B" ELSE IF n = 4 THEN "V" ELSE ""]]

InitInputs ==
    \E vtype \in {Stack, Folder} : \E name2 \in {"A", "B", "C"} : \E order \in InputOrders :
       /\ nodeType = InputsGraph(vtype, name2, order).nodeType
       /\ inputs = InputsGraph(vtype, name2, order).inputs
       /\ uiName = InputsGraph(vtype, name2, order).uiName
       /\ viewNode = 4
       /\ viewModel = updateTree(InputsGraph(vtype, name2, order)).viewModel
       /\ inputsModel = updateTree(InputsGraph(vtype, name2, order)).inputsModel
       /\ sortKeyParent = InitGraph.sortKeyParent
       /\ sortKey = InitGraph.sortKey
       /\ expandState = InitGraph.expandState
       /\ expandedSubState = InitGraph.expandedSubState
       /\ componentHash = InitGraph.componentHash
       /\ componentOfNode = InitGraph.componentOfNode
       /\ componentFolderOfNode = InitGraph.componentFolderOfNode
       /\ imageComponent = InitGraph.imageComponent
       /\ disableUpdates = FALSE
       /\ inputOrderLock = FALSE
       /\ lazySetInputsTimer = FALSE
       /\ lazyUpdateTimer = FALSE
       /\ uiCreated = TRUE
       /\ progressiveLoadingInProgress = FALSE
       /\ treeSelection = updateTree(InputsGraph(vtype, name2, order)).treeSelection
       /\ editors = <<>>
       /\ sortTimer = FALSE
       /\ sortFolders = <<>>
       /\ dropAction = "IgnoreAction"
       /\ draggedNodePaths = <<>>
       /\ lastHandler = "init"
       /\ calls = <<>>
       /\ viewCalls = <<>>
       /\ lastOp = Op("init", 0, 0, 0)
       /\ raised = ""
       /\ nOps = 0
       /\ returned = <<>>
       /\ InitManip

\* The up and down buttons of the inputs list, with any rows selected.
ReorderSelected ==
    /\ nOps < MaxOps
    /\ \E up \in BOOLEAN :
       \E indices \in (SUBSET (0..(Len(inputsModel) - 1))) \ {{}} :
       \E rej \in RejSets({viewNode}) :
          Apply(reorderSelected(BeginUser(Cur, "reorderSelected", up, indices, rej),
                                up, indices, rej))

\* The two sort entries of the inputs list's menu.
SortInputs ==
    /\ nOps < MaxOps
    /\ \E ascending \in BOOLEAN : \E rej \in RejSets({viewNode}) :
          Apply(sortInputs(BeginUser(Cur, "sortInputs", ascending, rej, 0),
                           ascending, rej))

NextInputs ==
    \/ InputsDropFromTree
    \/ InputsRowRemoved
    \/ LazySetInputsTimeout
    \/ LazyUpdateTimeout
    \/ ReorderSelected
    \/ SortInputs

SpecInputs == InitInputs /\ [][NextInputs]_vars

\* The step is reorderSelected with a selection that holds the first row of
\* the list and the direction up, or the last row and the direction down.
PastBoundary ==
    /\ lastOp'.op = "reorderSelected"
    /\ \/ lastOp'.a /\ 0 \in lastOp'.b
       \/ ~lastOp'.a /\ (Len(inputsModel) - 1) \in lastOp'.b

\* C15: reorderSelected with a selection at the boundary it would move past
\* makes no call of the Facade (no testNodeInputs, no setNodeInputs) and
\* leaves the inputs of the view node as they were.
C15_ReorderBoundary ==
    [][PastBoundary => calls' = <<>> /\ inputs'[viewNode] = inputs[viewNode]]_vars

\* The sequence from its last element to its first.
Reverse(seq) == [i \in 1..Len(seq) |-> seq[Len(seq) + 1 - i]]

\* The inputs of the view node after sortInputs(ascending), when the Facade
\* accepts the sorted list.
SortedInputs(ascending) == sortInputs(Cur, ascending, {}).inputs[viewNode]

\* Two different inputs of the view node never have one display name.
DistinctNames ==
    \A i \in 1..Len(inputs[viewNode]) : \A j \in 1..Len(inputs[viewNode]) :
       inputs[viewNode][i] # inputs[viewNode][j]
       => uiName[inputs[viewNode][i]] # uiName[inputs[viewNode][j]]

\* C16 as stated: from every state, the input order that sortInputs(True)
\* produces is the reverse of the order that sortInputs(False) produces.
C16_SortReversedAnyNames ==
    ~inputOrderLock => SortedInputs(TRUE) = Reverse(SortedInputs(FALSE))

\* C16, amended: from every state in which different inputs of the view node
\* have different display names, the input order that sortInputs(True)
\* produces is the reverse of the order that sortInputs(False) produces.
C16_SortReversed ==
    (~inputOrderLock /\ DistinctNames)
    => SortedInputs(TRUE) = Reverse(SortedInputs(FALSE))

\* sortInputs(False) ran on inputs named "A", "C" and "B" and left them in the
\* order C, B, A.
C16_Witness ==
    /\ lastOp.op = "sortInputs"
    /\ lastOp.a = FALSE
    /\ uiName[2] = "C"
    /\ inputs[viewNode] = <<2, 3, 1>>
    /\ Len(calls) = 2
    /\ DistinctNames
    /\ SortedInputs(TRUE) = <<1, 3, 2>>

\* ------------------------------------------------------------------------ C17
\* The last step was viewByIndex on a sub-component item.
ViewedSubComponent == lastOp.op = "viewByIndex" /\ lastOp.b # NotASubComponent

\* C17: viewByIndex calls setViewNode if and only if the item's node is not the
\* view node, and then exactly once with that node.  For a sub-component item
\* the request of the item's node ends as the empty default when the view did
\* not change and the request already was the item's value, and as the item's
\* value in every other case.
C17_ViewByIndexRequest ==
    [][lastOp'.op = "viewByIndex" /\ nOps' = nOps + 1 =>
          /\ viewCalls' = (IF lastOp'.a # viewNode THEN <<lastOp'.a>> ELSE <<>>)
          /\ viewNode' = lastOp'.a
          /\ lastOp'.b # NotASubComponent =>
                imageComponent'[lastOp'.a].v =
                    (IF lastOp'.a = viewNode /\ imageComponent[lastOp'.a].v = lastOp'.c
                     THEN <<>> ELSE lastOp'.c)]_vars

\* The layer item of the viewed source was activated while its request was
\* active: the request is cleared and the view was not set.
C17_Witness ==
    /\ ViewedSubComponent
    /\ lastOp.b = LayerSubComponent
    /\ viewNode = lastOp.a
    /\ viewCalls = <<>>
    /\ imageComponent[viewNode] = Prop(<<>>)

\* After newFolderSlot made folder of the selected paths: every selected node
\* is an input of the folder; a node selected under a parent is no input of
\* that parent after create-from-selection (which = 2), and after
\* create-from-copy-of-selection (which = 3) it is one if it was one.
FolderHoldsSelection(which, paths, folder) ==
    \A i \in 1..Len(paths) :
        /\ contains(inputs'[folder], paths[i][1])
        /\ nodeExists(Cur, paths[i][2]) =>
              IF which = 2 THEN ~contains(inputs'[paths[i][2]], paths[i][1])
              ELSE contains(inputs[paths[i][2]], paths[i][1])
                      => contains(inputs'[paths[i][2]], paths[i][1])

\* C18: newFolderSlot with a non-empty selection and which = 2 or 3 makes the
\* selected nodes the inputs of the new folder, detaches them from the parents
\* they were selected under (2) or leaves them there (3), and views the
\* folder; with an empty selection the view node stays.
C18_FolderFromSelection ==
    [][lastOp'.op = "newFolderSlot" /\ nOps' = nOps + 1 =>
          IF lastOp'.b = <<>> THEN viewNode' = viewNode
          ELSE lastOp'.a \in {2, 3} =>
                  /\ viewNode' = FreshNode(Cur)
                  /\ FolderHoldsSelection(lastOp'.a, lastOp'.b, FreshNode(Cur))]_vars

\* ------------------------------------------- the transform manipulator's events
\* Where the pointer can be: three points of the first image away from its
\* corners, two points of the diagonal through its lower left corner (one at
\* that corner, one beyond the center), a point of the second image and a
\* point of no image.
PointerPositions ==
    {Pt(32, 20), Pt(40, 20), Pt(48, 20), Pt(8, 4), Pt(72, 36), Pt(136, 20),
     Pt(192, 192)}

\* The run of free-translation drag steps after a drag: a step that wrote the
\* translate of the node of the run goes on with it, another one that wrote
\* with the free-translation control starts one, and no write ends it.
dragRunAfter(s, t) ==
    IF t.propWrites = <<>> \/ s.control # FreeTranslation THEN NoRun
    ELSE IF s.dragRun.n > 0 /\ s.dragRun.node = s.currentEditNode.tformNode
    THEN [s.dragRun EXCEPT !.n = @ + 1]
    ELSE [n |-> 1, node |-> s.currentEditNode.tformNode, from |-> s.downPoint,
          trans |-> s.translate[s.currentEditNode.tformNode]]

\* pointer--move and stylus-pen--move, pointer-1--push and stylus-pen--push,
\* pointer-1--drag and stylus-pen--drag, pointer-1--release and
\* stylus-pen--release.  The bindings of the two devices share the handlers,
\* and no handler tests the order of the events.
Move ==
    /\ nManip < MaxManipEvents
    /\ \E p \in PointerPositions : ManipApply(move(ManipBegin(ManipCur, "move", p), p))

Push ==
    /\ nManip < MaxManipEvents
    /\ \E p \in PointerPositions : ManipApply(push(ManipBegin(ManipCur, "push", p), p))

Drag ==
    /\ nManip < MaxManipEvents
    /\ \E p \in PointerPositions :
          ManipApply([drag(ManipBegin(ManipCur, "drag", p), p)
                         EXCEPT !.dragRun = dragRunAfter(ManipCur, drag(ManipCur, p))])

Release ==
    /\ nManip < MaxManipEvents
    /\ ManipApply(release(ManipBegin(ManipCur, "release", Origin)))

\* The renderer drew a frame with other images: an image left or joined the
\* rendered ones (commands.renderedImages()).
RenderedImagesChanged ==
    /\ nManip < MaxManipEvents
    /\ \E n \in ManipNodes :
          ManipApply([ManipBegin(ManipCur, "rendered", Origin)
                         EXCEPT !.renderedImages =
                                    IF n \in @ THEN @ \ {n} ELSE @ \cup {n}])

NextManip == Move \/ Push \/ Drag \/ Release \/ RenderedImagesChanged

SpecManip == Init /\ [][NextManip]_vars

\* ------------------------------------------------------------------------ C19
\* The state of the manipulator: idle with no hovered node, hover with one,
\* editing while _editing is set.
ManipState(cur, ed) ==
    IF ed THEN "editing" ELSE IF cur # NoEditNode THEN "hover" ELSE "idle"

\* A step of the manipulator that changes its state does one of the four
\* transitions.
ManipTransition(from, to) ==
    \/ /\ from = "idle" /\ to = "hover" /\ manipOp'.op = "move"
       /\ firstImageAtPixel(ManipCur, manipOp'.p) # NoNode
    \/ from = "hover" /\ to = "editing" /\ manipOp'.op = "push"
    \/ from = "editing" /\ to = "hover" /\ manipOp'.op = "release"
    \/ /\ from = "hover" /\ to = "idle" /\ manipOp'.op = "move"
       /\ firstImageAtPixel(ManipCur, manipOp'.p) = NoNode

\* C19: the manipulator changes state only by idle to hover on a move that hits
\* an image, hover to editing on a press, editing to hover on a release and
\* hover to idle on a move that hits none; a press with no hovered node changes
\* nothing; after a release the manipulator is not editing and the state tag
\* of the hovered node is "hover".
C19_ManipTransitions ==
    [][/\ ManipState(currentEditNode, editing) # ManipState(currentEditNode', editing')
          => ManipTransition(ManipState(currentEditNode, editing),
                             ManipState(currentEditNode', editing'))
       /\ manipOp'.op = "push" /\ currentEditNode = NoEditNode
          => UNCHANGED <<editNodes, currentEditNode, control, gc, corner, downPoint,
                         editing, didDrag, tmanipState, translate, scale>>
       /\ manipOp'.op = "release"
          => /\ ~editing'
             /\ currentEditNode' # NoEditNode
                => tmanipState'[currentEditNode'.tformNode] = "hover"]_vars

\* ------------------------------------------------------------------------ C20
\* C20: a drag step with the free-translation control never writes the scale;
\* when its pointer is at the recorded down-point the translate it writes is
\* the one it read; and when its pointer is back at the down-point of the
\* first step of its run of free-translation drag steps (the pointer offsets
\* of the run sum to zero) the translate is the one before the run.
C20_FreeTranslationDrag ==
    [][manipOp'.op = "drag" /\ control = FreeTranslation /\ propWrites' # <<>> =>
          /\ \A i \in 1..Len(propWrites') : propWrites'[i].prop # "scale"
          /\ manipOp'.p = downPoint
             => translate'[currentEditNode.tformNode]
                    = translate[currentEditNode.tformNode]
          /\ manipOp'.p = dragRun'.from
             => translate'[dragRun'.node] = dragRun'.trans]_vars

\* ------------------------------------------------------------------------ C21
\* The product of two floats as a number, without rounding.
ExactMul(x, y) == Norm(x.m * y.m, x.e + y.e)

\* The pointer moved from one point to another along the line through the
\* recorded center g and the recorded corner c.
AlongDiagonal(from, to, g, c) ==
    /\ from # to
    /\ ExactMul(FSub(to[1], from[1]), FSub(c[2], g[2]))
           = ExactMul(FSub(to[2], from[2]), FSub(c[1], g[1]))

\* C21: a drag step with a corner control on a node whose scale components
\* are both non-zero, with the pointer moved along the diagonal from the
\* center to the corner, changes the scale and writes a scale whose ratio
\* scaleX/scaleY is the ratio before the step.
C21_CornerDragRatio ==
    [][/\ manipOp'.op = "drag" /\ propWrites' # <<>>
       /\ control \notin {NoControl, FreeTranslation}
       /\ scale[currentEditNode.tformNode][1].m # 0
       /\ scale[currentEditNode.tformNode][2].m # 0
       /\ AlongDiagonal(downPoint, manipOp'.p, gc, corner)
       => /\ scale'[currentEditNode.tformNode] # scale[currentEditNode.tformNode]
          /\ ExactMul(scale'[currentEditNode.tformNode][1],
                      scale[currentEditNode.tformNode][2])
                = ExactMul(scale[currentEditNode.tformNode][1],
                           scale'[currentEditNode.tformNode][2])]_vars

\* ---------------------------------------------------------- the editor panels
MaxEditors == 3
MaxEditorCalls == 5

\* The labels the edit modes register their panels under.
EditorLabels == {"Folder View", "Stack", "Source"}

\* addEditor(name, widget): without the tree widget of the UI nothing is
\* registered; the new item is shown.
addEditor(s, name) ==
    IF ~s.uiCreated THEN s
    ELSE [s EXCEPT !.editors = Append(@, [label |-> name, hidden |-> FALSE])]

\* useEditor(name)
useEditor(s, name) ==
    [s EXCEPT !.editors = [i \in DOMAIN @ |->
                              IF name = @[i].label THEN [@[i] EXCEPT !.hidden = FALSE]
                              ELSE @[i]]]

\* reloadEditorTab(): every panel is hidden, and session-manager-load-ui is
\* sent for the edit modes to answer.
reloadEditorTab(s) ==
    [s EXCEPT !.editors = [i \in DOMAIN @ |-> [@[i] EXCEPT !.hidden = TRUE]]]

AddEditor ==
    /\ nOps < MaxEditorCalls
    /\ Len(editors) < MaxEditors
    /\ \E name \in EditorLabels :
          Apply(addEditor(BeginUser(Cur, "addEditor", name, 0, 0), name))

UseEditor ==
    /\ nOps < MaxEditorCalls
    /\ \E name \in EditorLabels :
          Apply(useEditor(BeginUser(Cur, "useEditor", name, 0, 0), name))

ReloadEditorTab ==
    /\ nOps < MaxEditorCalls
    /\ Apply(reloadEditorTab(BeginUser(Cur, "reloadEditorTab", 0, 0, 0)))

NextEditors == AddEditor \/ UseEditor \/ ReloadEditorTab

SpecEditors == Init /\ [][NextEditors]_vars

\* ------------------------------------------------------------------------ C22
\* C22: after useEditor(label) the registered panels with that label are
\* visible and every other registered panel is hidden.
C22_UseEditorExclusive ==
    [][lastOp'.op = "useEditor" /\ nOps' = nOps + 1 =>
          \A i \in DOMAIN editors' :
             editors'[i].hidden = (editors'[i].label # lastOp'.a)]_vars

\* ------------------------------------------- the Graph Facade's events, no UI
\* The state after activate(): _setupUI has loaded session_manager.ui and
\* built the widgets, the models and the timers, or it has returned at the
\* file it could not open and left them all None.
InitEvents ==
    \E ui \in BOOLEAN :
       /\ nodeType = InitGraph.nodeType
       /\ inputs = InitGraph.inputs
       /\ uiName = InitGraph.uiName
       /\ viewNode = InitGraph.viewNode
       /\ sortKeyParent = InitGraph.sortKeyParent
       /\ sortKey = InitGraph.sortKey
       /\ expandState = InitGraph.expandState
       /\ expandedSubState = InitGraph.expandedSubState
       /\ componentHash = InitGraph.componentHash
       /\ componentOfNode = InitGraph.componentOfNode
       /\ componentFolderOfNode = InitGraph.componentFolderOfNode
       /\ imageComponent = InitGraph.imageComponent
       /\ disableUpdates = FALSE
       /\ inputOrderLock = FALSE
       /\ lazySetInputsTimer = FALSE
       /\ lazyUpdateTimer = FALSE
       /\ uiCreated = ui
       /\ progressiveLoadingInProgress = FALSE
       /\ treeSelection = updateTree([InitGraph EXCEPT !.uiCreated = ui]).treeSelection
       /\ viewModel = updateTree([InitGraph EXCEPT !.uiCreated = ui]).viewModel
       /\ inputsModel = updateTree([InitGraph EXCEPT !.uiCreated = ui]).inputsModel
       /\ editors = <<>>
       /\ sortTimer = FALSE
       /\ sortFolders = <<>>
       /\ dropAction = "IgnoreAction"
       /\ draggedNodePaths = <<>>
       /\ lastHandler = "init"
       /\ calls = <<>>
       /\ viewCalls = <<>>
       /\ lastOp = Op("init", 0, 0, 0)
       /\ raised = ""
       /\ nOps = 0
       /\ returned = <<>>
       /\ InitManip

\* The events of the Facade at a change of the view node: the view node is
\* the new one at after-graph-view-change.
AfterGraphViewChangeEvent ==
    /\ nOps < MaxOps
    /\ \E n \in {m \in Nodes : nodeExists(Cur, m)} :
          Apply(afterGraphViewChange(
                    [BeginUser(Cur, "afterGraphViewChange", n, 0, 0)
                        EXCEPT !.viewNode = n]))

BeforeGraphViewChangeEvent ==
    /\ nOps < MaxOps
    /\ Apply(beforeGraphViewChange(BeginUser(Cur, "beforeGraphViewChange", 0, 0, 0)))

NextEvents ==
    \/ PropertyChangedEvent
    \/ NodeInputsChangedEvent
    \/ AfterGraphViewChangeEvent
    \/ BeforeGraphViewChangeEvent
    \/ LazyUpdateTimeout

SpecEvents == InitEvents /\ [][NextEvents]_vars

\* ------------------------------------------------------------------------ C23
\* C23: no handler of an event of the Facade lets an exception escape,
\* whether or not the UI was constructed.
C23_NoEscape == raised = ""

\* ------------------------------------------------------------------------ C24
\* The nodes of a sequence of rows, in row order.
NodesOf(rows) == [i \in 1..Len(rows) |-> rows[i].node]

\* No debounce timer is pending.
TimersFired == ~lazySetInputsTimer /\ ~lazyUpdateTimer /\ ~sortTimer

\* C24: whenever the view node is a folder and no debounce timer is pending,
\* the child rows of the folder in the tree are in the order of its inputs as
\* the inputs list shows them.
C24_TreeMatchesInputsList ==
    (viewNode # NoNode /\ nodeType[viewNode] = Folder /\ TimersFired)
    => viewModel[viewNode] = NodesOf(inputsModel)

\* ------------------------------------------------- sort-key writes that fail
\* setSortKeyInParent(node, parent, value) when the Facade raises at the
\* first or at the second property write the call comes to: the write and
\* what follows it are skipped, and the exception is swallowed.
setSortKeyInParentFails(s, node, parent, value, fail) ==
    IF ~(s.sortKeyParent[node].ex /\ s.sortKey[node].ex
         /\ Len(s.sortKeyParent[node].v) = Len(s.sortKey[node].v))
    THEN IF fail = 1 THEN s
         ELSE setProperty(s, "sortKeyParent", node, <<parent>>)
    ELSE IF indexOf(s.sortKeyParent[node].v, parent) = -1
    THEN IF fail = 1 THEN s
         ELSE setProperty(s, "sortKeyParent", node,
                          Append(s.sortKeyParent[node].v, parent))
    ELSE IF fail = 1 THEN s
    ELSE setSortKeyInParent(s, node, parent, value)

SetSortKeyFails ==
    /\ nOps < MaxSortCalls
    /\ \E node \in 1..MaxSortNodes : \E parent \in 0..MaxSortNodes :
          \E value \in SortKeys : \E fail \in {1, 2} :
             Apply(setSortKeyInParentFails(
                       BeginUser(Cur, "setSortKeyInParentFails", node, parent, value),
                       node, parent, value, fail))

NextSortKeyFails == SetSortKey \/ SortKeysOutOfStep \/ SetSortKeyFails

SpecSortKeyFails == Init /\ [][NextSortKeyFails]_vars

\* ------------------------------------------------------------------------ C25
\* C25: after every setSortKeyInParent call, one with a failing property
\* write included, the sortKeyParent and sortKey arrays of the node have one
\* length; and after a call that found them with different lengths, both
\* hold one entry, the parent and the value of the call.
C25_SortKeyArraysInStep ==
    [][lastOp'.op \in {"setSortKeyInParent", "setSortKeyInParentFails"} =>
          /\ Len(sortKeyParent'[lastOp'.a].v) = Len(sortKey'[lastOp'.a].v)
          /\ Len(sortKeyParent[lastOp'.a].v) # Len(sortKey[lastOp'.a].v)
             => /\ sortKeyParent'[lastOp'.a].v = <<lastOp'.b>>
                /\ sortKey'[lastOp'.a].v = <<lastOp'.c>>]_vars

\* ------------------------------------------------------------------------ C26
\* C26: a tree rebuild fired by its timer while the inputs flush is pending
\* leaves the flush pending and the rows of the inputs list, the edit the
\* flush is to write to the graph, as they were; an inputs flush fired while
\* the tree rebuild is pending leaves the rebuild pending.
C26_DebouncesIndependent ==
    [][/\ lastOp'.op = "updateTree" /\ lazySetInputsTimer
             => lazySetInputsTimer' /\ inputsModel' = inputsModel
       /\ lastOp'.op = "rebuildInputsFromList" /\ lazyUpdateTimer
             => lazyUpdateTimer']_vars

\* The three timers are single-shot timers of the event loop: a started timer
\* fires once the loop is idle.  A firing is written here by what it does to
\* the timer and by the handler it runs, which is what the fairness conditions
\* need; TimerHandlersStopOwnTimer and RebuildFits make each of the three
\* formulas below enabled exactly when the timeout action of Next is, and a
\* step of Next satisfies one exactly when it is that timeout.
LazySetInputsFires ==
    /\ lazySetInputsTimer
    /\ lazySetInputsTimer' = FALSE
    /\ lastHandler' = "rebuildInputsFromList"

LazyUpdateFires ==
    /\ lazyUpdateTimer
    /\ lazyUpdateTimer' = FALSE
    /\ lastHandler' = "updateTree"

SortFires ==
    /\ sortTimer
    /\ sortTimer' = FALSE
    /\ lastHandler' = "doSortFolders"

SpecLive ==
    /\ Init /\ [][Next]_vars
    /\ WF_lazySetInputsTimer(LazySetInputsFires)
    /\ WF_lazyUpdateTimer(LazyUpdateFires)
    /\ WF_sortTimer(SortFires)

\* The rebuild of the inputs can run whenever its timer is pending.
RebuildFits ==
    lazySetInputsTimer =>
        \E rej \in RejSets({viewNode}) : \E fails \in BOOLEAN :
           Fits(rebuildInputsFromList(
                    [Begin(Cur, "rebuildInputsFromList", rej, fails, 0)
                        EXCEPT !.lazySetInputsTimer = FALSE], rej, fails))

\* No timer handler leaves its own timer started again.
TimerHandlersStopOwnTimer ==
    /\ lazySetInputsTimer =>
          \A rej \in RejSets({viewNode}) : \A fails \in BOOLEAN :
             ~rebuildInputsFromList(
                  [Begin(Cur, "rebuildInputsFromList", rej, fails, 0)
                      EXCEPT !.lazySetInputsTimer = FALSE],
                  rej, fails).lazySetInputsTimer
    /\ lazyUpdateTimer =>
          ~updateTree([Begin(Cur, "updateTree", 0, 0, 0)
                          EXCEPT !.lazyUpdateTimer = FALSE]).lazyUpdateTimer
    /\ sortTimer =>
          ~doSortFolders([Begin(Cur, "doSortFolders", 0, 0, 0)
                             EXCEPT !.sortTimer = FALSE], 1).sortTimer

\* ------------------------------------------------------------------------ C27
\* C27: once the user gestures and the outside events have ended, the timer
\* handlers that the session manager's own writes to the graph start come
\* to an end: no timer handler starts its own timer again, and from some
\* state on no debounce timer is pending.
C27_NoFeedbackLoop ==
    /\ [](RebuildFits /\ TimerHandlersStopOwnTimer)
    /\ <>[]TimersFired

\* The sort timer wrote the sort keys of a folder's rows, the write started
\* the tree timer, and the rebuild it fired left no timer pending.
C27_Witness ==
    /\ lastOp.op = "updateTree"
    /\ TimersFired
    /\ \E n \in Nodes : sortKey[n].ex
    /\ nOps = MaxOps

\* ------------------------------------------------- rebuilds during a load
\* beforeProgressiveLoading, afterProgressiveLoading: the events around a
\* progressive load of sources.
beforeProgressiveLoading(s) ==
    [s EXCEPT !.progressiveLoadingInProgress = TRUE]

afterProgressiveLoadingInputs(s) ==
    IF s.viewNode # NoNode THEN updateInputs(s, s.viewNode) ELSE s

afterProgressiveLoading(s) ==
    afterProgressiveLoadingInputs(
        updateTree([s EXCEPT !.progressiveLoadingInProgress = FALSE]))

BeforeProgressiveLoadingEvent ==
    /\ nOps < MaxOps
    /\ Apply(beforeProgressiveLoading(
                 BeginUser(Cur, "beforeProgressiveLoading", 0, 0, 0)))

AfterProgressiveLoadingEvent ==
    /\ nOps < MaxOps
    /\ Apply(afterProgressiveLoading(
                 BeginUser(Cur, "afterProgressiveLoading", 0, 0, 0)))

\* The inputs list edited by the user and flushed while sources load.
NextLoading ==
    \/ InputsDropFromTree
    \/ InputsRowRemoved
    \/ LazySetInputsTimeout
    \/ BeforeProgressiveLoadingEvent
    \/ AfterProgressiveLoadingEvent

SpecLoading == InitInputs /\ [][NextLoading]_vars

\* ------------------------------------------------------------------------ C28
\* The setInputs attempts of the handler that ran last on the node, and the
\* ones the Facade took.
AttemptsOn(log, node) ==
    {i \in 1..Len(log) : log[i].fn = "testNodeInputs" /\ log[i].node = node}

AcceptedOn(log, node) ==
    {i \in 1..Len(log) : log[i].fn = "setNodeInputs" /\ log[i].node = node}

\* rebuildInputsFromList ran and the Facade refused the inputs it proposed
\* for the view node.
RebuildRejected ==
    /\ lastHandler = "rebuildInputsFromList"
    /\ viewNode # NoNode
    /\ AttemptsOn(calls, viewNode) # {}
    /\ AcceptedOn(calls, viewNode) = {}

\* C28: when the Facade refuses the inputs that rebuildInputsFromList
\* proposes, setInputs is tried once only, and afterwards the inputs list
\* shows the graph inputs of the view node, in the graph's order.
C28_RejectedRebuild ==
    RebuildRejected =>
        /\ Cardinality(AttemptsOn(calls, viewNode)) = 1
        /\ inputsModel = Rows(inputs[viewNode])

\* C28, as the code has it: the refused inputs are tried once only; unless
\* sources are loading, the inputs list then shows the graph inputs of the
\* view node in the graph's order, and while sources load it keeps the rows
\* that were proposed.
C28_RejectedRebuildUnlessLoading ==
    RebuildRejected =>
        /\ Cardinality(AttemptsOn(calls, viewNode)) = 1
        /\ ~progressiveLoadingInProgress =>
              inputsModel = Rows(inputs[viewNode])
        /\ progressiveLoadingInProgress =>
              Len(inputsModel) =
                  Len(calls[CHOOSE i \in AttemptsOn(calls, viewNode) : TRUE].ins)

\* A refused rebuild whose proposed inputs were not the inputs of the graph,
\* with no load in progress.
C28_Witness ==
    /\ RebuildRejected
    /\ ~progressiveLoadingInProgress
    /\ calls[CHOOSE i \in AttemptsOn(calls, viewNode) : TRUE].ins # inputs[viewNode]
    /\ inputs[viewNode] # <<>>
    /\ inputsModel = Rows(inputs[viewNode])

\* ------------------------------------------------------------------------ C29
\* sortInputs ran on a view node that is a folder.
SortedFolder ==
    /\ lastHandler = "sortInputs"
    /\ viewNode # NoNode
    /\ nodeType[viewNode] = Folder
    /\ AttemptsOn(calls, viewNode) # {}

\* C29: after sortInputs on a folder, the input at position i of the folder's
\* input order has the sort key i under the folder, and the rebuilt tree
\* shows the folder's children in that order.
C29_SortInputsFolder ==
    SortedFolder =>
        /\ \A i \in 1..Len(inputs[viewNode]) :
              sortKeyInParent(Cur, inputs[viewNode][i], viewNode) = i - 1
        /\ viewModel[viewNode] = inputs[viewNode]

\* ------------------------------------------------------------------------ C30
\* The sort keys of the rows under folder F are their row indexes.
KeysInRowOrder(F) ==
    \A i \in 1..Len(viewModel[F]) :
       sortKeyInParent(Cur, viewModel[F][i], F) = i - 1

InitFrom(g) ==
    /\ nodeType = g.nodeType
    /\ inputs = g.inputs
    /\ uiName = g.uiName
    /\ viewNode = g.viewNode
    /\ sortKeyParent = g.sortKeyParent
    /\ sortKey = g.sortKey
    /\ expandState = g.expandState
    /\ expandedSubState = g.expandedSubState
    /\ componentHash = g.componentHash
    /\ componentOfNode = g.componentOfNode
    /\ componentFolderOfNode = g.componentFolderOfNode
    /\ imageComponent = g.imageComponent
    /\ disableUpdates = g.disableUpdates
    /\ inputOrderLock = g.inputOrderLock
    /\ lazySetInputsTimer = g.lazySetInputsTimer
    /\ lazyUpdateTimer = g.lazyUpdateTimer
    /\ viewModel = g.viewModel
    /\ inputsModel = g.inputsModel
    /\ uiCreated = g.uiCreated
    /\ progressiveLoadingInProgress = g.progressiveLoadingInProgress
    /\ treeSelection = g.treeSelection
    /\ editors = g.editors
    /\ sortTimer = g.sortTimer
    /\ sortFolders = g.sortFolders
    /\ dropAction = g.dropAction
    /\ draggedNodePaths = g.draggedNodePaths
    /\ lastHandler = g.lastHandler
    /\ calls = g.calls
    /\ viewCalls = g.viewCalls
    /\ lastOp = g.lastOp
    /\ raised = g.raised
    /\ nOps = g.nOps
    /\ returned = g.returned
    /\ InitManip

\* updateTree, the loop over commands.viewNodes(): the rows of the six
\* category items, each node that no folder has as an input appended to the
\* item its type selects.
RECURSIVE populateCategories(_, _, _)
populateCategories(s, viewNodesList, items) ==
    IF viewNodesList = <<>> THEN items
    ELSE populateCategories(
             s, Tail(viewNodesList),
             IF \E o \in nodeOutputs(s, Head(viewNodesList)) :
                    s.nodeType[o] = Folder
             THEN items
             ELSE [items EXCEPT ![categoryOf(s.nodeType[Head(viewNodesList)])] =
                                    Append(@, Head(viewNodesList))])

categoryItems(s) ==
    populateCategories(s, InOrder({n \in Nodes : nodeExists(s, n)}, 1),
                       [text \in {Categories[c] : c \in 1..Len(Categories)} |-> <<>>])

\* updateTree, the loop over the category items: the texts of the items with
\* rows, in the order they are appended to the model.
RECURSIVE appendedCategories(_, _)
appendedCategories(s, c) ==
    IF c > Len(Categories) THEN <<>>
    ELSE (IF categoryItems(s)[Categories[c]] # <<>> THEN <<Categories[c]>>
          ELSE <<>>)
         \o appendedCategories(s, c + 1)

\* The rows of the appended category items one after the other, each item's
\* rows sorted by their keys (viewModel.sort).
RECURSIVE categoryRows(_, _, _)
categoryRows(s, texts, i) ==
    IF i > Len(texts) THEN <<>>
    ELSE SortByKey(s, categoryItems(s)[texts[i]], NoNode)
         \o categoryRows(s, texts, i + 1)

\* A session of up to two nodes of any type; a folder may hold the node after
\* it.  Scripts add nodes and connect them, and the tree follows.
TreeTypes ==
    {"RVSourceGroup", "RVFileSource", "RVImageSource", "RVSequenceGroup",
     "RVStackGroup", "RVLayoutGroup", "RVFolderGroup", "RVSwitchGroup"}

TreeGraph(type1, type2, held) ==
    [InitGraph EXCEPT
        !.nodeType = [n \in 0..MaxNodes |->
                         IF n = 1 THEN type1 ELSE IF n = 2 THEN type2 ELSE ""],
        !.inputs = [n \in 0..MaxNodes |->
                       IF n = 1 /\ type1 = Folder /\ held THEN <<2>> ELSE <<>>],
        !.uiName = [n \in 0..MaxNodes |->
                       IF n = 1 THEN "A" ELSE IF n = 2 THEN "B" ELSE ""],
        !.viewNode = 2]

InitTree ==
    \E type1 \in TreeTypes : \E type2 \in TreeTypes : \E held \in BOOLEAN :
       InitFrom(updateTree(TreeGraph(type1, type2, held)))

MaxTreeNodes == 3

\* A script makes a node: commands.newNode and its new-node event.
NewNodeEvent ==
    /\ nOps < MaxOps
    /\ FreshNode(Cur) \in 1..MaxTreeNodes
    /\ \E type \in TreeTypes :
          Apply(newNode(BeginUser(Cur, "newNode", type, 0, 0), type,
                        FreshNode(Cur), "N"))

\* A script connects a node to a folder: commands.setNodeInputs and its
\* inputs-changed event.
SetNodeInputsEvent ==
    /\ nOps < MaxOps
    /\ \E folder \in 1..MaxTreeNodes : \E node \in 1..MaxTreeNodes :
          /\ nodeExists(Cur, folder) /\ nodeType[folder] = Folder
          /\ nodeExists(Cur, node)
          /\ ~contains(inputs[folder], node)
          /\ testNodeInputs(Cur, folder, Append(inputs[folder], node), {})
          /\ Apply(setNodeInputs(
                       BeginUser(Cur, "setNodeInputs", folder, node, 0),
                       folder, Append(inputs[folder], node)))

NextTree ==
    \/ NewNodeEvent
    \/ SetNodeInputsEvent
    \/ UpdateTreeEvent
    \/ LazyUpdateTimeout

SpecTree == InitTree /\ [][NextTree]_vars

\* ------------------------------------------------------------------------ C31
\* The category the table of the specification gives a type.
TableCategory(ntype) ==
    CASE ntype \in {"RVSourceGroup", "RVFileSource", "RVImageSource"} -> "SOURCES"
      [] ntype = "RVSequenceGroup" -> "SEQUENCES"
      [] ntype = "RVStackGroup" -> "STACKS"
      [] ntype = "RVLayoutGroup" -> "LAYOUTS"
      [] ntype = "RVFolderGroup" -> "FOLDERS"
      [] OTHER -> "OTHER"

\* The number of rows of the list that hold the node.
RowsOf(list, n) == Cardinality({i \in 1..Len(list) : list[i] = n})

\* No rebuild of the tree is pending.
TreeRebuilt == uiCreated /\ ~lazyUpdateTimer /\ ~disableUpdates

\* C31: after a rebuild every node that no folder has as an input is one row
\* of the category of its type and of no other; a node that a folder has as an
\* input is a row of no category and a row of each such folder; and the model
\* holds the categories that have rows, and no other.
C31_Categories ==
    TreeRebuilt =>
        /\ viewModel[NoNode] =
              categoryRows(Cur, appendedCategories(Cur, 1), 1)
        /\ \A n \in Nodes : nodeExists(Cur, n) =>
              IF \A o \in nodeOutputs(Cur, n) : nodeType[o] # Folder
              THEN /\ RowsOf(viewModel[NoNode], n) = 1
                   /\ \A text \in DOMAIN categoryItems(Cur) :
                         RowsOf(categoryItems(Cur)[text], n) =
                            IF text = TableCategory(nodeType[n]) THEN 1 ELSE 0
              ELSE /\ RowsOf(viewModel[NoNode], n) = 0
                   /\ \A text \in DOMAIN categoryItems(Cur) :
                         RowsOf(categoryItems(Cur)[text], n) = 0
                   /\ \A o \in nodeOutputs(Cur, n) :
                         nodeType[o] = Folder => contains(viewModel[o], n)
        /\ \A c \in 1..Len(Categories) :
              contains(appendedCategories(Cur, 1), Categories[c])
                 <=> \E n \in Nodes :
                        /\ nodeExists(Cur, n)
                        /\ \A o \in nodeOutputs(Cur, n) : nodeType[o] # Folder
                        /\ TableCategory(nodeType[n]) = Categories[c]

\* A rebuilt tree with a folder that holds a node, a node of a type outside the
\* table, and two categories in the model.
C31_Witness ==
    /\ TreeRebuilt
    /\ lastHandler = "updateTree"
    /\ \E f \in Nodes : nodeType[f] = Folder /\ viewModel[f] # <<>>
    /\ \E n \in Nodes : nodeType[n] = "RVSwitchGroup"
    /\ Len(appendedCategories(Cur, 1)) = 2

\* ---------------------------------------------- the sub-components of a source
\* The chain of an item's children: the item, then the items above it.
ChainOf(item) == <<[t |-> item.subType, v |-> item.value]>> \o item.chain

\* _addSourceSubComponents, the loops over l_channels and v_noLayerChannels:
\* one channel item for each name under the item with the chain given.
RECURSIVE channelItems(_, _, _)
channelItems(node, channels, chain) ==
    IF channels = <<>> THEN <<>>
    ELSE <<SubItem(node, ChannelSubComponent, Head(channels), chain)>>
         \o channelItems(node, Tail(channels), chain)

\* The body of the loop over v_layers for the layer l.
layerItem(node, l, nlayers, topChain) ==
    IF nlayers > 1 /\ l.name = ""
    THEN <<SubItem(node, LayerSubComponent, "", topChain)>>
         \o channelItems(node, l.channels,
                         ChainOf(SubItem(node, LayerSubComponent, "", topChain)))
    ELSE IF l.name # ""
    THEN <<SubItem(node, LayerSubComponent, l.name, topChain)>>
         \o channelItems(node, l.channels,
                         ChainOf(SubItem(node, LayerSubComponent, l.name, topChain)))
    ELSE channelItems(node, l.channels, topChain)

RECURSIVE layerItems(_, _, _, _)
layerItems(node, layers, nlayers, topChain) ==
    IF layers = <<>> THEN <<>>
    ELSE layerItem(node, Head(layers), nlayers, topChain)
         \o layerItems(node, Tail(layers), nlayers, topChain)

\* The end of the loop over viewInfos: the channels of no layer, under an
\* unnamed layer item of their own when the view has layers as well.
noLayerItems(node, v, topChain) ==
    IF v.layers # <<>> /\ v.noLayerChannels # <<>>
    THEN <<SubItem(node, LayerSubComponent, "", topChain)>>
         \o channelItems(node, v.noLayerChannels,
                         ChainOf(SubItem(node, LayerSubComponent, "", topChain)))
    ELSE channelItems(node, v.noLayerChannels, topChain)

\* The body of the loop over viewInfos with a view item for every named view,
\* whatever the number of views.
viewItemAnyNamed(node, v, nviews) ==
    IF v.name # ""
    THEN <<SubItem(node, ViewSubComponent, v.name, MediaChain)>>
         \o layerItems(node, v.layers, Len(v.layers),
                       ChainOf(SubItem(node, ViewSubComponent, v.name, MediaChain)))
         \o noLayerItems(node, v,
                         ChainOf(SubItem(node, ViewSubComponent, v.name, MediaChain)))
    ELSE layerItems(node, v.layers, Len(v.layers), MediaChain)
         \o noLayerItems(node, v, MediaChain)

\* The body of the loop over viewInfos for the view v.
viewItem(node, v, nviews) ==
    IF nviews > 1 /\ v.name # ""
    THEN <<SubItem(node, ViewSubComponent, v.name, MediaChain)>>
         \o layerItems(node, v.layers, Len(v.layers),
                       ChainOf(SubItem(node, ViewSubComponent, v.name, MediaChain)))
         \o noLayerItems(node, v,
                         ChainOf(SubItem(node, ViewSubComponent, v.name, MediaChain)))
    ELSE layerItems(node, v.layers, Len(v.layers), MediaChain)
         \o noLayerItems(node, v, MediaChain)

RECURSIVE viewItems(_, _, _)
viewItems(node, views, nviews) ==
    IF views = <<>> THEN <<>>
    ELSE viewItem(node, Head(views), nviews) \o viewItems(node, Tail(views), nviews)

\* _addSourceSubComponents of a source with one media file whose views are
\* viewInfos: the items in the order they are made.
mediaItems(node, viewInfos) ==
    <<SubItem(node, MediaSubComponent, MediaFile, RowChain)>>
    \o viewItems(node, viewInfos, Len(viewInfos))

\* The media a file may report: one or two views, named or not, each with up
\* to MaxLayers layers, named or not, of one channel, and with or without a
\* channel of no layer.
MaxViews == 2
MaxLayers == 2

SeqsUpTo(S, lo, hi) == UNION {[1..k -> S] : k \in lo..hi}

LayerInfos == {[name |-> nm, channels |-> <<"R">>] : nm \in {"", "L"}}

ViewInfos ==
    {[name |-> nm, layers |-> ls, noLayerChannels |-> nl] :
        nm \in {"", "left"}, ls \in SeqsUpTo(LayerInfos, 0, MaxLayers),
        nl \in {<<>>, <<"Z">>}}

\* The row of a source is built for a file with the views given; the views
\* and the items are kept.
MaxMediaCalls == 1

AddSourceSubComponents ==
    /\ nOps < MaxMediaCalls
    /\ \E viewInfos \in SeqsUpTo(ViewInfos, 1, MaxViews) :
          Apply([BeginUser(Cur, "addSourceSubComponents", 0, 0, 0)
                    EXCEPT !.returned =
                        <<[viewInfos |-> viewInfos,
                           items |-> mediaItems(3, viewInfos)]>>])

NextMedia == AddSourceSubComponents

SpecMedia == Init /\ [][NextMedia]_vars

\* ------------------------------------------------------------------------ C32
\* The views and the items of the row that was built last.
BuiltViews == returned[1].viewInfos
BuiltItems == returned[1].items

\* The items of one type, and the ones with a value under a parent.
ItemsOfType(t) == {i \in 1..Len(BuiltItems) : BuiltItems[i].subType = t}

HasItem(t, value, parent) ==
    \E i \in ItemsOfType(t) :
       /\ BuiltItems[i].value = value
       /\ BuiltItems[i].chain[1] = parent

\* Whether view k gets an item, and the item its children attach to.
ViewShown(k) == Len(BuiltViews) > 1 /\ BuiltViews[k].name # ""

TopOf(k) ==
    IF ViewShown(k) THEN [t |-> ViewSubComponent, v |-> BuiltViews[k].name]
    ELSE [t |-> MediaSubComponent, v |-> MediaFile]

\* Whether layer j of view k gets an item, and the item its channels attach to.
LayerShown(k, j) ==
    \/ BuiltViews[k].layers[j].name # ""
    \/ Len(BuiltViews[k].layers) > 1

LayerTopOf(k, j) ==
    IF LayerShown(k, j)
    THEN [t |-> LayerSubComponent, v |-> BuiltViews[k].layers[j].name]
    ELSE TopOf(k)

ViewLayers == {kj \in (1..MaxViews) \X (1..MaxLayers) :
                  kj[1] <= Len(BuiltViews) /\ kj[2] <= Len(BuiltViews[kj[1]].layers)}

\* The views whose channels of no layer get a layer item of their own.
NoLayerShown ==
    {k \in 1..Len(BuiltViews) :
        BuiltViews[k].layers # <<>> /\ BuiltViews[k].noLayerChannels # <<>>}

\* What the rule says of the views, of where the layers attach, and of the
\* channels of the layers.
CollapsingRule ==
    /\ Cardinality(ItemsOfType(MediaSubComponent)) = 1
    /\ Cardinality(ItemsOfType(ViewSubComponent)) =
          Cardinality({k \in 1..Len(BuiltViews) : ViewShown(k)})
    /\ \A k \in 1..Len(BuiltViews) :
          ViewShown(k) =>
              HasItem(ViewSubComponent, BuiltViews[k].name,
                      [t |-> MediaSubComponent, v |-> MediaFile])
    /\ \A kj \in ViewLayers :
          /\ LayerShown(kj[1], kj[2]) =>
                HasItem(LayerSubComponent, BuiltViews[kj[1]].layers[kj[2]].name,
                        TopOf(kj[1]))
          /\ \A c \in 1..Len(BuiltViews[kj[1]].layers[kj[2]].channels) :
                HasItem(ChannelSubComponent,
                        BuiltViews[kj[1]].layers[kj[2]].channels[c],
                        LayerTopOf(kj[1], kj[2]))

\* C32: a view item is made exactly for the named views of a file with more
\* than one view; a layer item exactly for the named layers and for the
\* unnamed layers of a view with more than one layer; the items of a view
\* without an item attach to the media item, the channels of a layer without
\* an item to the item the layer would attach to; and every channel has an
\* item.
C32_CollapsingRule ==
    returned # <<>> =>
        /\ CollapsingRule
        /\ Cardinality(ItemsOfType(LayerSubComponent)) =
              Cardinality({kj \in ViewLayers : LayerShown(kj[1], kj[2])})
        /\ Cardinality(ItemsOfType(ChannelSubComponent)) =
              Cardinality(ViewLayers)
              + Cardinality({k \in 1..Len(BuiltViews) :
                                BuiltViews[k].noLayerChannels # <<>>})

\* C32, as the code has it: besides the items of the rule, a view that has
\* layers and channels of no layer gets one more unnamed layer item, under the
\* item of the view, and the channels of no layer attach to it; in a view
\* without layers they attach to the item of the view.
C32_CollapsingRuleNoLayer ==
    returned # <<>> =>
        /\ CollapsingRule
        /\ Cardinality(ItemsOfType(LayerSubComponent)) =
              Cardinality({kj \in ViewLayers : LayerShown(kj[1], kj[2])})
              + Cardinality(NoLayerShown)
        /\ Cardinality(ItemsOfType(ChannelSubComponent)) =
              Cardinality(ViewLayers)
              + Cardinality({k \in 1..Len(BuiltViews) :
                                BuiltViews[k].noLayerChannels # <<>>})
        /\ \A k \in 1..Len(BuiltViews) :
              BuiltViews[k].noLayerChannels # <<>> =>
                 IF k \in NoLayerShown
                 THEN /\ HasItem(LayerSubComponent, "", TopOf(k))
                      /\ HasItem(ChannelSubComponent, "Z",
                                 [t |-> LayerSubComponent, v |-> ""])
                 ELSE HasItem(ChannelSubComponent, "Z", TopOf(k))

\* A file with two views: a named one with two layers, one of them unnamed,
\* and an unnamed one with a single unnamed layer.
C32_Witness ==
    /\ returned # <<>>
    /\ lastHandler = "addSourceSubComponents"
    /\ Len(BuiltViews) = 2
    /\ ViewShown(1) /\ ~ViewShown(2)
    /\ Len(BuiltViews[1].layers) = 2
    /\ BuiltViews[1].layers[1].name = ""
    /\ Len(BuiltViews[2].layers) = 1
    /\ ~LayerShown(2, 1)
    /\ HasItem(ChannelSubComponent, "R", [t |-> MediaSubComponent, v |-> MediaFile])

\* ------------------------------------ the manipulator and the graph's events
\* The transform nodes a list of pairs or of transform infos names.
tformNodesOf(list) == {list[i].tformNode : i \in 1..Len(list)}

\* removeTags(): the tmanip and tmanip_state properties of the nodes of the
\* list are deleted.
removeTags(s) ==
    [s EXCEPT !.tmanip = @ \ tformNodesOf(s.editNodes),
              !.tmanipState = [n \in ManipNodes |->
                                  IF n \in tformNodesOf(s.editNodes) THEN "" ELSE @[n]]]

\* What the Facade answers to findEditingNodes: the view node ("" for None),
\* whether metaEvaluateClosestByType or nodeConnections raises, the transform
\* nodes of the infos and the inputs of the view node.
FacadeView(vnode, raises, infos, ins) ==
    [vnode |-> vnode, raises |-> raises, infos |-> infos, ins |-> ins]

\* findEditingNodes(setStates): the tags of one info.
findEditingNodesTags(s, node, setStates) ==
    IF setStates \/ node \notin s.tmanip
    THEN [s EXCEPT !.tmanip = @ \cup {node}, !.tmanipState[node] = ""]
    ELSE s

\* findEditingNodes(setStates): the loop over the infos from info i on; the
\* pairs it appends are new objects.
RECURSIVE findEditingNodesFrom(_, _, _, _)
findEditingNodesFrom(s, setStates, g, i) ==
    IF i > Len(g.infos) THEN s
    ELSE findEditingNodesFrom(
             findEditingNodesTags(
                 [s EXCEPT !.editNodes =
                               Append(@, [EditNodePair(g.infos[i], g.ins[i])
                                             EXCEPT !.obj = s.nManip])],
                 g.infos[i], setStates),
             setStates, g, i + 1)

\* The variant that builds the pairs of the shorter of the two lists.
findEditingNodesShorter(s, setStates, g) ==
    IF g.vnode = "" \/ g.raises THEN [s EXCEPT !.editNodes = <<>>]
    ELSE findEditingNodesFrom(
             [s EXCEPT !.editNodes = <<>>], setStates,
             [g EXCEPT !.infos = IF Len(g.ins) < Len(@)
                                 THEN SubSeq(@, 1, Len(g.ins)) ELSE @],
             1)

findEditingNodes(s, setStates, g) ==
    IF g.vnode = "" \/ g.raises THEN [s EXCEPT !.editNodes = <<>>]
    ELSE IF Len(g.infos) # Len(g.ins) THEN [s EXCEPT !.editNodes = <<>>]
    ELSE findEditingNodesFrom([s EXCEPT !.editNodes = <<>>], setStates, g, 1)

\* TransformManip.nodeInputsChanged(event), afterGraphViewChange(event) and
\* beforeGraphViewChange(event).
manipNodeInputsChanged(s, node, g) ==
    IF g.vnode # "" /\ node = g.vnode THEN findEditingNodes(s, FALSE, g) ELSE s

manipAfterGraphViewChange(s, g) == findEditingNodes(s, TRUE, g)

manipBeforeGraphViewChange(s) == removeTags(s)

\* The graph changed before an event: the transform nodes of the infos exist,
\* and with deleted set the other ones were deleted with their properties.
seqNodes(infos) == {infos[i] : i \in 1..Len(infos)}

graphChanged(s, g, deleted) ==
    IF ~deleted THEN [s EXCEPT !.tformExists = @ \cup seqNodes(g.infos)]
    ELSE [s EXCEPT !.tformExists = seqNodes(g.infos),
                   !.tmanip = @ \cap seqNodes(g.infos),
                   !.tmanipState = [n \in ManipNodes |->
                                       IF n \in seqNodes(g.infos) THEN @[n] ELSE ""],
                   !.translate = [n \in ManipNodes |->
                                     IF n \in seqNodes(g.infos) THEN @[n] ELSE Origin],
                   !.scale = [n \in ManipNodes |->
                                 IF n \in seqNodes(g.infos) THEN @[n] ELSE Pt(1, 1)]]

\* The lists of distinct transform nodes, the first k inputs of a view (the
\* inputs are named like the transform nodes of the activated view), and the
\* answers of the Facade: no view node, a call that raises, and every list of
\* infos with every number of inputs.
ManipSeqs ==
    {f \in UNION {[1..k -> ManipNodes] : k \in 0..MaxManipNodes} :
        \A i, j \in 1..Len(f) : i # j => f[i] # f[j]}

FirstInputs(k) == [i \in 1..k |-> i]

FacadeViews ==
    {FacadeView("", FALSE, <<>>, <<>>), FacadeView("V", TRUE, <<>>, <<>>)}
    \cup {FacadeView("V", FALSE, f, FirstInputs(k)) :
             f \in ManipSeqs, k \in 0..MaxManipNodes}

\* Where the pointer is when the graph's events are interleaved with its own:
\* at the lower left corner of the first image, inside the second image, and
\* on no image.
GraphPointerPositions == {Pt(8, 4), Pt(136, 20), Pt(192, 192)}

PointerMove ==
    /\ nManip < MaxManipEvents
    /\ \E p \in GraphPointerPositions :
          ManipApply(move(ManipBegin(ManipCur, "move", p), p))

PointerPush ==
    /\ nManip < MaxManipEvents
    /\ \E p \in GraphPointerPositions :
          ManipApply(push(ManipBegin(ManipCur, "push", p), p))

PointerDrag ==
    /\ nManip < MaxManipEvents
    /\ \E p \in GraphPointerPositions :
          ManipApply([drag(ManipBegin(ManipCur, "drag", p), p)
                         EXCEPT !.dragRun = dragRunAfter(ManipCur, drag(ManipCur, p))])

\* graph-node-inputs-changed for the view node "V" or for another node "W",
\* after-graph-view-change and before-graph-view-change.
GraphNodeInputsChanged ==
    /\ nManip < MaxManipEvents
    /\ \E node \in {"V", "W"}, g \in FacadeViews, deleted \in BOOLEAN :
          ManipApply(manipNodeInputsChanged(
                         graphChanged(ManipBegin(ManipCur, "inputs-changed",
                                                 [node |-> node, view |-> g]),
                                      g, deleted),
                         node, g))

AfterGraphViewChange ==
    /\ nManip < MaxManipEvents
    /\ \E g \in FacadeViews :
          ManipApply(manipAfterGraphViewChange(
                         graphChanged(ManipBegin(ManipCur, "after-view-change",
                                                 [node |-> g.vnode, view |-> g]),
                                      g, FALSE),
                         g))

BeforeGraphViewChange ==
    /\ nManip < MaxManipEvents
    /\ ManipApply(manipBeforeGraphViewChange(
                      ManipBegin(ManipCur, "before-view-change", Origin)))

NextManipGraph ==
    \/ PointerMove \/ PointerPush \/ PointerDrag \/ Release
    \/ RenderedImagesChanged
    \/ GraphNodeInputsChanged \/ AfterGraphViewChange \/ BeforeGraphViewChange

SpecManipGraph == Init /\ [][NextManipGraph]_vars

\* ------------------------------------------------------------------------ C33
\* The last event was a trigger of findEditingNodes: a view change, or an
\* inputs-changed event for the view node.
Triggered(op) ==
    \/ op.op = "after-view-change"
    \/ op.op = "inputs-changed" /\ op.p.node = op.p.view.vnode

\* The Facade's transform infos and the view node's inputs do not pair up.
Mismatched(g) == g.vnode # "" /\ ~g.raises /\ Len(g.infos) # Len(g.ins)

\* The list is the pairing of the infos with the inputs, all of them objects
\* made by the event that has just run.
PairedAnew(list, g, k) ==
    /\ Len(list) = Len(g.infos)
    /\ \A i \in 1..Len(list) :
          list[i] = [tformNode |-> g.infos[i], inputNode |-> g.ins[i], obj |-> k]

\* C33: every trigger of findEditingNodes (a view change, or an inputs-changed
\* event for the view node) replaces the whole list of pairs: the new list is
\* empty when there is no view node, when the Facade raises and when the
\* number of transform infos differs from the number of the view node's
\* inputs, and otherwise holds only pairs made by this event, one per info;
\* an inputs-changed event for a node other than the view node leaves the
\* list as it was.
C33_FindEditingNodes ==
    [][/\ Triggered(manipOp')
          => IF manipOp'.p.view.vnode = "" \/ manipOp'.p.view.raises
                \/ Mismatched(manipOp'.p.view)
             THEN editNodes' = <<>>
             ELSE PairedAnew(editNodes', manipOp'.p.view, nManip')
       /\ manipOp'.op = "inputs-changed" /\ ~Triggered(manipOp')
          => editNodes' = editNodes]_vars

\* The first event was an inputs-changed event for the view node with two
\* infos and one input, and it emptied the list of the two pairs of
\* activate().
C33_Witness ==
    /\ nManip = 1
    /\ manipOp.op = "inputs-changed"
    /\ Triggered(manipOp)
    /\ Mismatched(manipOp.p.view)
    /\ Len(manipOp.p.view.infos) = 2
    /\ Len(manipOp.p.view.ins) = 1
    /\ editNodes = <<>>

\* ------------------------------------------------------------------------ C39
\* C39: after every handler of the manipulator the current edit node is none
\* or one of the pairs of the current list.
C39_CurrentInList ==
    \/ currentEditNode = NoEditNode
    \/ \E i \in 1..Len(editNodes) : editNodes[i] = currentEditNode

\* ------------------------------------------------------------------------ C38
\* The transform nodes whose tmanip_state tag is not empty.
TaggedNodes == {n \in ManipNodes : tmanipState[n] # ""}

\* C38: after every handler at most one transform node has a non-empty
\* tmanip_state tag; a tag is "editing" only while the controller is editing
\* and on the current edit node; and the node a pointer move has left hovered
\* has the tag "hover".
C38_TagStateAgreement ==
    /\ Cardinality(TaggedNodes) <= 1
    /\ \A n \in ManipNodes :
          tmanipState[n] = "editing"
             => editing /\ currentEditNode.tformNode = n
    /\ manipOp.op = "move" /\ currentEditNode # NoEditNode
          => tmanipState[currentEditNode.tformNode] = "hover"

\* ------------------------------------------------------------------------ C40
\* C40: a drag event that wrote a translate or a scale property ran while the
\* controller was editing.
C40_DragWritesWhileEditing ==
    manipOp.op = "drag" /\ propWrites # <<>> => editing

\* ------------------------------------------------------------------------ C34
\* A view with four inputs, so that rows can be selected that are not
\* adjacent and touch neither end of the list: stack 4 ("V") viewed, with the
\* sequences 1, 2, 3 and 5 as its inputs in some order.
ReorderNodes == {1, 2, 3, 5}

ReorderOrders ==
    {order \in [1..4 -> ReorderNodes] :
        \A i \in 1..4 : \A j \in 1..4 : i # j => order[i] # order[j]}

ReorderGraph(order) ==
    [InitGraph EXCEPT
        !.nodeType = [n \in 0..MaxNodes |->
                         IF n \in ReorderNodes THEN Sequence
                         ELSE IF n = 4 THEN Stack ELSE ""],
        !.inputs = [n \in 0..MaxNodes |-> IF n = 4 THEN order ELSE <<>>],
        !.uiName = [n \in 0..MaxNodes |->
                       IF n = 1 THEN "A" ELSE IF n = 2 THEN "B"
                       ELSE IF n = 3 THEN "C" ELSE IF n = 4 THEN "V"
                       ELSE IF n = 5 THEN "D" ELSE ""]]

InitReorder == \E order \in ReorderOrders : InitFrom(updateTree(ReorderGraph(order)))

NextReorder == ReorderSelected \/ InputsRowRemoved \/ LazySetInputsTimeout

SpecReorder == InitReorder /\ [][NextReorder]_vars

\* How often node n is in the list, and two lists that hold the same nodes
\* equally often.
Occurrences(list, n) == Cardinality({i \in 1..Len(list) : list[i] = n})

IsPermutation(a, b) ==
    /\ Len(a) = Len(b)
    /\ \A n \in Nodes : Occurrences(a, n) = Occurrences(b, n)

\* C34: every input list that reorderSelected passes to setInputs is a
\* permutation of the inputs the view node had before the call.
C34_ReorderPermutes ==
    [][lastOp'.op = "reorderSelected"
       => \A i \in AttemptsOn(calls', viewNode) :
             IsPermutation(calls'[i].ins, inputs[viewNode])]_vars

\* ------------------------------------------------------------------------ C36
\* The step is sortInputs on a folder view node whose sorted input set the
\* Facade refuses.
RejectedFolderSort ==
    /\ lastHandler' = "sortInputs"
    /\ viewNode # NoNode
    /\ nodeType[viewNode] = Folder
    /\ AttemptsOn(calls', viewNode) # {}
    /\ AcceptedOn(calls', viewNode) = {}

\* C36: a sortInputs on a folder that the Facade refuses writes no sort key,
\* and the rows of the folder's children in the tree stay in their order.
C36_RejectedSortKeepsKeys ==
    [][RejectedFolderSort
       => /\ sortKeyParent' = sortKeyParent
          /\ sortKey' = sortKey
          /\ viewModel'[viewNode] = viewModel[viewNode]]_vars

\* ------------------------------------------------------------------------ C35
\* sourceFromSubComponent for item i of the owner, and then for item j, as
\* selectedConvertedSubComponents calls it.
FirstSource(i, owner) ==
    sourceFromSubComponent([Cur EXCEPT !.disableUpdates = TRUE], i, owner, FALSE)

SecondSource(i, j, owner) ==
    sourceFromSubComponent(FirstSource(i, owner).s, j, owner, FALSE)

\* The node carries the image-component request of the item (a media item
\* has none).
CarriesRequest(s, node, item) ==
    \/ item.subType = MediaSubComponent
    \/ s.imageComponent[node] = Prop(subComponentPropValue(item))

\* The session has names left for two sources and a components folder.
RoomForTwo == Cardinality({n \in Nodes : nodeType[n] = ""}) >= 3

\* C35: for two tree items of one source that denote different
\* sub-components, sourceFromSubComponent returns two different nodes, each
\* with the image-component request of its own item.
C35_DistinctSubComponents ==
    RoomForTwo =>
        \A owner \in Nodes : \A i, j \in addSourceSubComponents(Cur, owner) :
            (nodeType[owner] = Source /\ i # j)
            => /\ FirstSource(i, owner).node # SecondSource(i, j, owner).node
               /\ CarriesRequest(SecondSource(i, j, owner).s,
                                 FirstSource(i, owner).node, i)
               /\ CarriesRequest(SecondSource(i, j, owner).s,
                                 SecondSource(i, j, owner).node, j)

\* ------------------------------------------------------------------------ C37
\* C37: once the tree is rebuilt and the view node has a row in it, the
\* selection of the tree is one item, the view node's own row, and no
\* sub-component item of the view node.
C37_SelectsOwnRow ==
    (TreeRebuilt /\ viewNode # NoNode /\ InTree(Cur, viewNode))
    => treeSelection = <<Row(viewNode)>>

====
